---- MODULE Spec2Model ----
(***************************************************************************)
(* LegacyResampler (libs/input/Resampler.cpp, include/input/Resampler.h):  *)
(* the resampler's state, resampleMotionEvent and the helpers it calls.    *)
(*                                                                         *)
(* Times are std::chrono::nanoseconds, kept as integers in nanoseconds.    *)
(* float values (alpha, AXIS_X, AXIS_Y) are kept as exact fractions        *)
(* [n, d] in lowest terms: the model computes what the float expressions   *)
(* of the source denote, without IEEE rounding.                            *)
(*                                                                         *)
(* BackendUnifiedServiceManager (libs/binder/BackendUnifiedServiceManager   *)
(* .cpp): the client-side cache of checkService and getService2, used by   *)
(* the threads of one process, with the real service manager behind it.    *)
(*                                                                         *)
(* FenceMonitor (libs/gui/FenceMonitor.cpp): queueFence callers, the       *)
(* monitor thread and the destructor, step by step under mMutex.           *)
(***************************************************************************)
EXTENDS Integers, Sequences, FiniteSets, TLC

VARIABLES
    mLatestSamples,       \* RingBuffer<Sample>, capacity 2
    mPreviousDeviceId,    \* std::optional<DeviceId>
    pc,                   \* caller's position: "idle", "returned" or "aborted"
    frameTime,            \* arguments of the call that has returned
    futureSample,
    originalMotionEvent,  \* motionEvent as passed in
    motionEvent,          \* motionEvent as left by the call
    entry,                \* resampler state on entry of that call
    \* BackendUnifiedServiceManager (libs/binder/BackendUnifiedServiceManager.cpp)
    kUseCache,            \* constexpr bool kUseCache of the build
    threadPoolMaxTotalThreadCount, \* ProcessState's getThreadPoolMaxTotalThreadCount()
    innerSm,              \* what mTheRealServiceManager has registered, by name
    mCacheForGetService,  \* BinderCacheWithInvalidation: name -> cached binder
    deadBinders,          \* binders whose hosting process has died
    lookup,               \* each thread's position in checkService / getService2,
                          \* and what its call returned
    returnedLive,         \* per name, the live binders lookups have returned
    overlapped,           \* two lookups of one name have run at the same time
    \* FenceMonitor (libs/gui/FenceMonitor.cpp)
    mQueue,               \* std::deque<sp<Fence>>: the pending fences
    mFencesQueued,        \* uint32_t
    mFencesSignaled,      \* uint32_t
    mStopped,             \* set by the destructor
    mMutex,               \* who holds mMutex: "none", "caller", "monitor", "destructor"
    monitor,              \* the monitor thread: position, fence and fenceNum
    caller,               \* the queueFence call inside its critical section
    destructor,           \* position of ~FenceMonitor
    fences,               \* the fences passed to queueFence so far, and their state
    traced                \* what has been traced, queued, waited on and removed

resamplerVars == <<mLatestSamples, mPreviousDeviceId, pc, frameTime,
                   futureSample, originalMotionEvent, motionEvent, entry>>

binderVars == <<kUseCache, threadPoolMaxTotalThreadCount, innerSm,
                mCacheForGetService, deadBinders, lookup, returnedLive,
                overlapped>>

fenceVars == <<mQueue, mFencesQueued, mFencesSignaled, mStopped, mMutex,
               monitor, caller, destructor, fences, traced>>

vars == <<mLatestSamples, mPreviousDeviceId, pc, frameTime, futureSample,
          originalMotionEvent, motionEvent, entry,
          kUseCache, threadPoolMaxTotalThreadCount, innerSm,
          mCacheForGetService, deadBinders, lookup, returnedLive, overlapped,
          mQueue, mFencesQueued, mFencesSignaled, mStopped, mMutex,
          monitor, caller, destructor, fences, traced>>

-----------------------------------------------------------------------------
(* Bounds of the model *)

\* largest number of samples of a motion event handed to the resampler
MaxSamples == 2

\* largest number of queueFence calls on one FenceMonitor
MaxFences == 3

-----------------------------------------------------------------------------
(* Constants of Resampler.cpp *)

RESAMPLE_LATENCY == 5000000

RESAMPLE_MIN_DELTA == 2000000

RESAMPLE_MAX_DELTA == 20000000

RESAMPLE_MAX_PREDICTION == 8000000

\* RingBuffer<Sample> mLatestSamples{/*capacity=*/2}
LatestSamplesCapacity == 2

\* std::optional<T>: <<>> is std::nullopt, <<v>> holds v
NullOpt == <<>>

Some(v) == <<v>>

has_value(opt) == Len(opt) = 1

value(opt) == opt[1]

\* const InputMessage*: <<>> is nullptr, <<m>> points to m
NullPtr == <<>>

-----------------------------------------------------------------------------
(* float arithmetic, exact *)

Abs(i) == IF i < 0 THEN -i ELSE i

RECURSIVE Gcd(_, _)
Gcd(a, b) == IF b = 0 THEN a ELSE Gcd(b, a % b)

\* the float n/d; d = 0 stands for the inf/NaN a division by zero yields
Float(n, d) ==
    IF d = 0 THEN [n |-> 0, d |-> 0]
    ELSE LET g == Gcd(Abs(n), Abs(d))
             s == IF d < 0 THEN -1 ELSE 1
         IN  [n |-> s * (n \div g), d |-> s * (d \div g)]

FloatOf(i) == [n |-> i, d |-> 1]

FSub(a, b) == Float(a.n * b.d - b.n * a.d, a.d * b.d)

FAdd(a, b) == Float(a.n * b.d + b.n * a.d, a.d * b.d)

FMul(a, b) == Float(a.n * b.n, a.d * b.d)

\* a < b on floats; comparisons with NaN are false
FLess(a, b) == a.d # 0 /\ b.d # 0 /\ a.n * b.d < b.n * a.d

lerp_fromZero(a, b, alpha) == FAdd(a, FMul(alpha, b))

\* inline float lerp(float a, float b, float alpha)
lerp(a, b, alpha) == FAdd(a, FMul(alpha, FSub(b, a)))

-----------------------------------------------------------------------------
(* Resampler.cpp, anonymous namespace *)

canResampleTool_withPalm(toolType) ==
    toolType = "FINGER" \/ toolType = "MOUSE" \/
    toolType = "STYLUS" \/ toolType = "UNKNOWN" \/ toolType = "PALM"

canResampleTool(toolType) ==
    toolType = "FINGER" \/ toolType = "MOUSE" \/
    toolType = "STYLUS" \/ toolType = "UNKNOWN"

calculateResampledCoords_noFlag(a, b, alpha) ==
    LET resampledCoords == IF FLess(alpha, FloatOf(1)) THEN a ELSE b
    IN  [resampledCoords EXCEPT !.x = lerp(a.x, b.x, alpha),
                                !.y = lerp(a.y, b.y, alpha)]

calculateResampledCoords_alwaysFirst(a, b, alpha) ==
    [a EXCEPT !.isResampled = TRUE,
              !.x = lerp(a.x, b.x, alpha),
              !.y = lerp(a.y, b.y, alpha)]

calculateResampledCoords(a, b, alpha) ==
    LET resampledCoords == IF FLess(alpha, FloatOf(1)) THEN a ELSE b
    IN  [resampledCoords EXCEPT !.isResampled = TRUE,
                                !.x = lerp(a.x, b.x, alpha),
                                !.y = lerp(a.y, b.y, alpha)]

-----------------------------------------------------------------------------
(* MotionEvent and RingBuffer, as the resampler uses them *)

getPointerCount(ev) == Len(ev.mPointerProperties)

getHistorySize(ev) == Len(ev.mSampleEventTimes) - 1

\* sampleIndex counts from 0, as in the source
getHistoricalEventTime(ev, sampleIndex) == ev.mSampleEventTimes[sampleIndex + 1]

\* getSamplePointerCoords()[index], index from 0
getSamplePointerCoords(ev, index) == ev.mSamplePointerCoords[index + 1]

\* MotionEvent::addSample(eventTime, pointerCoords, eventId)
addSample(ev, eventTime, pointerCoords, eventId) ==
    [ev EXCEPT !.mId = eventId,
               !.mSampleEventTimes = Append(@, eventTime),
               !.mSamplePointerCoords =
                   @ \o SubSeq(pointerCoords, 1, getPointerCount(ev))]

\* RingBuffer::pushBack: at capacity the oldest element is dropped
pushBack(buffer, sample) ==
    IF Len(buffer) = LatestSamplesCapacity
    THEN Append(Tail(buffer), sample)
    ELSE Append(buffer, sample)

\* *(mLatestSamples.end() - k)
FromEnd(buffer, k) == buffer[Len(buffer) - k + 1]

-----------------------------------------------------------------------------
(* LegacyResampler *)

\* Sample::asPointerCoords
asPointerCoords(sample) ==
    [i \in 1..Len(sample.pointers) |-> sample.pointers[i].coords]

\* the Sample updateLatestSamples builds for sampleIndex (from 0)
SampleOfMotionEvent(ev, sampleIndex) ==
    LET numPointers == getPointerCount(ev)
    IN  [eventTime |-> getHistoricalEventTime(ev, sampleIndex),
         pointers |->
            [p \in 1..numPointers |->
                [properties |-> ev.mPointerProperties[p],
                 coords |-> getSamplePointerCoords(
                                ev, sampleIndex * numPointers + (p - 1))]]]

RECURSIVE PushSamplesFrom(_, _, _)
PushSamplesFrom(buffer, ev, sampleIndex) ==
    IF sampleIndex < getHistorySize(ev) + 1
    THEN PushSamplesFrom(pushBack(buffer, SampleOfMotionEvent(ev, sampleIndex)),
                         ev, sampleIndex + 1)
    ELSE buffer

updateLatestSamples_fromEmpty(buffer, ev) ==
    LET numSamples == getHistorySize(ev) + 1
        latestIndex == numSamples - 1
        secondToLatestIndex == IF latestIndex > 0 THEN latestIndex - 1 ELSE 0
    IN  PushSamplesFrom(<<>>, ev, secondToLatestIndex)

updateLatestSamples_latestOnly(buffer, ev) ==
    LET numSamples == getHistorySize(ev) + 1
        latestIndex == numSamples - 1
    IN  PushSamplesFrom(buffer, ev, latestIndex)

updateLatestSamples(buffer, ev) ==
    LET numSamples == getHistorySize(ev) + 1
        latestIndex == numSamples - 1
        secondToLatestIndex == IF latestIndex > 0 THEN latestIndex - 1 ELSE 0
    IN  PushSamplesFrom(buffer, ev, secondToLatestIndex)

messageToSample(message) ==
    [eventTime |-> message.eventTime,
     pointers |-> SubSeq(message.pointers, 1, message.pointerCount)]

pointerPropertiesResampleable_sameCount(target, auxiliary) ==
    /\ Len(target.pointers) = Len(auxiliary.pointers)
    /\ \A i \in 1..Len(target.pointers) :
          /\ target.pointers[i].properties.id = auxiliary.pointers[i].properties.id
          /\ target.pointers[i].properties.toolType =
                 auxiliary.pointers[i].properties.toolType
          /\ canResampleTool(target.pointers[i].properties.toolType)

pointerPropertiesResampleable_noIdCheck(target, auxiliary) ==
    /\ ~(Len(target.pointers) > Len(auxiliary.pointers))
    /\ \A i \in 1..Len(target.pointers) :
          /\ target.pointers[i].properties.toolType =
                 auxiliary.pointers[i].properties.toolType
          /\ canResampleTool(target.pointers[i].properties.toolType)

pointerPropertiesResampleable_noToolMatch(target, auxiliary) ==
    /\ ~(Len(target.pointers) > Len(auxiliary.pointers))
    /\ \A i \in 1..Len(target.pointers) :
          /\ target.pointers[i].properties.id = auxiliary.pointers[i].properties.id
          /\ canResampleTool(target.pointers[i].properties.toolType)

pointerPropertiesResampleable(target, auxiliary) ==
    /\ ~(Len(target.pointers) > Len(auxiliary.pointers))
    /\ \A i \in 1..Len(target.pointers) :
          /\ target.pointers[i].properties.id = auxiliary.pointers[i].properties.id
          /\ target.pointers[i].properties.toolType =
                 auxiliary.pointers[i].properties.toolType
          /\ canResampleTool(target.pointers[i].properties.toolType)

canInterpolate_minExclusive(buffer, message) ==
    LET pastSample == FromEnd(buffer, 1)
        future == messageToSample(message)
        delta == future.eventTime - pastSample.eventTime
    IN  /\ pointerPropertiesResampleable(pastSample, future)
        /\ ~(delta <= RESAMPLE_MIN_DELTA)

canInterpolate(buffer, message) ==
    LET pastSample == FromEnd(buffer, 1)
        future == messageToSample(message)
        delta == future.eventTime - pastSample.eventTime
    IN  /\ pointerPropertiesResampleable(pastSample, future)
        /\ ~(delta < RESAMPLE_MIN_DELTA)

attemptInterpolation_clamped(buffer, resampleTime, message) ==
    IF ~canInterpolate(buffer, message) THEN NullOpt
    ELSE
    LET pastSample == FromEnd(buffer, 1)
        delta == message.eventTime - pastSample.eventTime
        newResampleTime == IF resampleTime > message.eventTime
                           THEN message.eventTime ELSE resampleTime
        alpha == Float(newResampleTime - pastSample.eventTime, delta)
    IN  Some([eventTime |-> newResampleTime,
         pointers |->
            [i \in 1..Len(pastSample.pointers) |->
                [properties |-> pastSample.pointers[i].properties,
                 coords |-> calculateResampledCoords(
                                pastSample.pointers[i].coords,
                                message.pointers[i].coords, alpha)]]])

attemptInterpolation(buffer, resampleTime, message) ==
    IF ~canInterpolate(buffer, message) THEN NullOpt
    ELSE
    LET pastSample == FromEnd(buffer, 1)
        delta == message.eventTime - pastSample.eventTime
        alpha == Float(resampleTime - pastSample.eventTime, delta)
    IN  Some([eventTime |-> resampleTime,
         pointers |->
            [i \in 1..Len(pastSample.pointers) |->
                [properties |-> pastSample.pointers[i].properties,
                 coords |-> calculateResampledCoords(
                                pastSample.pointers[i].coords,
                                message.pointers[i].coords, alpha)]]])

canExtrapolate_maxExclusive(buffer) ==
    IF Len(buffer) < 2 THEN FALSE
    ELSE
    LET pastSample == FromEnd(buffer, 2)
        presentSample == FromEnd(buffer, 1)
        delta == presentSample.eventTime - pastSample.eventTime
    IN  /\ pointerPropertiesResampleable(presentSample, pastSample)
        /\ ~(delta < RESAMPLE_MIN_DELTA)
        /\ ~(delta >= RESAMPLE_MAX_DELTA)

canExtrapolate_samePointerCount(buffer) ==
    IF Len(buffer) < 2 THEN FALSE
    ELSE
    LET pastSample == FromEnd(buffer, 2)
        presentSample == FromEnd(buffer, 1)
        delta == presentSample.eventTime - pastSample.eventTime
    IN  /\ Len(presentSample.pointers) = Len(pastSample.pointers)
        /\ pointerPropertiesResampleable(presentSample, pastSample)
        /\ ~(delta < RESAMPLE_MIN_DELTA)
        /\ ~(delta > RESAMPLE_MAX_DELTA)

canExtrapolate(buffer) ==
    IF Len(buffer) < 2 THEN FALSE
    ELSE
    LET pastSample == FromEnd(buffer, 2)
        presentSample == FromEnd(buffer, 1)
        delta == presentSample.eventTime - pastSample.eventTime
    IN  /\ pointerPropertiesResampleable(presentSample, pastSample)
        /\ ~(delta < RESAMPLE_MIN_DELTA)
        /\ ~(delta > RESAMPLE_MAX_DELTA)

Min(a, b) == IF b < a THEN b ELSE a

attemptExtrapolation_noHalf(buffer, resampleTime) ==
    IF ~canExtrapolate(buffer) THEN NullOpt
    ELSE
    LET pastSample == FromEnd(buffer, 2)
        presentSample == FromEnd(buffer, 1)
        delta == presentSample.eventTime - pastSample.eventTime
        farthestPrediction ==
            presentSample.eventTime + Min(delta, RESAMPLE_MAX_PREDICTION)
        newResampleTime ==
            IF resampleTime > farthestPrediction THEN farthestPrediction
            ELSE resampleTime
        alpha == Float(newResampleTime - pastSample.eventTime, delta)
    IN  Some([eventTime |-> newResampleTime,
         pointers |->
            [i \in 1..Len(presentSample.pointers) |->
                [properties |-> presentSample.pointers[i].properties,
                 coords |-> calculateResampledCoords(
                                pastSample.pointers[i].coords,
                                presentSample.pointers[i].coords, alpha)]]])

attemptExtrapolation(buffer, resampleTime) ==
    IF ~canExtrapolate(buffer) THEN NullOpt
    ELSE
    LET pastSample == FromEnd(buffer, 2)
        presentSample == FromEnd(buffer, 1)
        delta == presentSample.eventTime - pastSample.eventTime
        farthestPrediction ==
            presentSample.eventTime + Min(delta \div 2, RESAMPLE_MAX_PREDICTION)
        newResampleTime ==
            IF resampleTime > farthestPrediction THEN farthestPrediction
            ELSE resampleTime
        alpha == Float(newResampleTime - pastSample.eventTime, delta)
    IN  Some([eventTime |-> newResampleTime,
         pointers |->
            [i \in 1..Len(presentSample.pointers) |->
                [properties |-> presentSample.pointers[i].properties,
                 coords |-> calculateResampledCoords(
                                pastSample.pointers[i].coords,
                                presentSample.pointers[i].coords, alpha)]]])

addSampleToMotionEvent_twice(sample, ev) ==
    addSample(addSample(ev, sample.eventTime, asPointerCoords(sample), ev.mId),
              sample.eventTime, asPointerCoords(sample), ev.mId)

addSampleToMotionEvent_overwrite(sample, ev) ==
    LET n == Len(ev.mSampleEventTimes)
        p == getPointerCount(ev)
        cut == [ev EXCEPT !.mSampleEventTimes = SubSeq(@, 1, n - 1),
                          !.mSamplePointerCoords = SubSeq(@, 1, (n - 1) * p)]
    IN  addSample(cut, sample.eventTime, asPointerCoords(sample), ev.mId)

addSampleToMotionEvent_newId(sample, ev) ==
    addSample(ev, sample.eventTime, asPointerCoords(sample), ev.mId + 1)

addSampleToMotionEvent(sample, ev) ==
    addSample(ev, sample.eventTime, asPointerCoords(sample), ev.mId)

getResampleLatency == RESAMPLE_LATENCY

\* lines 250-252: the window a call starts from
LatestSamplesOnEntry_noClear(buffer, previousDeviceId, ev) == buffer

LatestSamplesOnEntry(buffer, previousDeviceId, ev) ==
    IF has_value(previousDeviceId) /\ value(previousDeviceId) # ev.mDeviceId
    THEN <<>>
    ELSE buffer

-----------------------------------------------------------------------------
(* The callers' inputs: the conversions of Resampler_test.cpp *)

Millis(n) == n * 1000000

\* Pointer::operator PointerCoords, for the pointer at index i (from 0) of a
\* sample whose first pointer is at (x, y)
PointerCoordsOf(s, i) ==
    [x |-> FloatOf((i + 1) * s.x + i),
     y |-> FloatOf(s.y + 2 * i),
     touchMajor |-> s.touchMajor + i,
     isResampled |-> s.isResampled]

SampleCoords(s, numPointers) ==
    [p \in 1..numPointers |-> PointerCoordsOf(s, p - 1)]

\* samples put into motion events: time in ms, first pointer
InputSamples ==
    { [eventTime |-> 5,  x |-> 1, y |-> 2, touchMajor |-> 1, isResampled |-> FALSE],
      [eventTime |-> 25, x |-> 2, y |-> 4, touchMajor |-> 2, isResampled |-> FALSE],
      [eventTime |-> 26, x |-> 5, y |-> 3, touchMajor |-> 4, isResampled |-> TRUE],
      [eventTime |-> 28, x |-> 0, y |-> 7, touchMajor |-> 3, isResampled |-> FALSE] }

\* samples passed as futureSample
FutureSamples ==
    { [eventTime |-> 26, x |-> 3, y |-> 5, touchMajor |-> 5, isResampled |-> TRUE],
      [eventTime |-> 27, x |-> 2, y |-> 4, touchMajor |-> 5, isResampled |-> FALSE],
      [eventTime |-> 30, x |-> 7, y |-> 1, touchMajor |-> 6, isResampled |-> FALSE] }

\* frame times passed to resampleMotionEvent, in ms
FrameTimes == {10, 32, 38, 48}

DeviceIds == {0, 1}

Finger(id) == [id |-> id, toolType |-> "FINGER"]

Stylus(id) == [id |-> id, toolType |-> "STYLUS"]

PointerPropertiesLists == { <<Finger(0)>>, <<Finger(0), Stylus(1)>> }

\* sample lists in the order of their event times
SampleLists ==
    UNION { { l \in [1..n -> InputSamples] :
                \A i \in 1..(n - 1) : l[i].eventTime <= l[i + 1].eventTime } :
            n \in 1..MaxSamples }

RECURSIVE Flatten(_)
Flatten(seqs) == IF seqs = <<>> THEN <<>> ELSE Head(seqs) \o Flatten(Tail(seqs))

\* InputStream::operator MotionEvent
InputStream(samples, deviceId, properties) ==
    [mId |-> 10 + deviceId,
     mDeviceId |-> deviceId,
     mSource |-> "AINPUT_SOURCE_CLASS_POINTER",
     mDisplayId |-> 0,
     mAction |-> "AMOTION_EVENT_ACTION_MOVE",
     mActionButton |-> 0,
     mFlags |-> 0,
     mEdgeFlags |-> 0,
     mMetaState |-> 0,
     mButtonState |-> 0,
     mClassification |-> "NONE",
     mXPrecision |-> 0,
     mYPrecision |-> 0,
     mDownTime |-> 0,
     mPointerProperties |-> properties,
     mSampleEventTimes |->
        [i \in 1..Len(samples) |-> Millis(samples[i].eventTime)],
     mSamplePointerCoords |->
        Flatten([i \in 1..Len(samples) |->
                    SampleCoords(samples[i], Len(properties))])]

\* InputSample::operator InputMessage
InputSample(s, properties) ==
    [eventTime |-> Millis(s.eventTime),
     pointerCount |-> Len(properties),
     pointers |->
        [p \in 1..Len(properties) |->
            [properties |-> properties[p],
             coords |-> PointerCoordsOf(s, p - 1)]]]

\* motion events of the first device, and the few of a second device
MotionEvents ==
    { InputStream(l, 0, pp) : l \in SampleLists, pp \in PointerPropertiesLists }
    \cup
    { InputStream(l, 1, <<Finger(0)>>) :
        l \in { m \in SampleLists : \A i \in 1..Len(m) : m[i].eventTime >= 26 } }

FutureMessages ==
    { InputSample(s, pp) : s \in FutureSamples, pp \in PointerPropertiesLists }

\* the futureSample arguments: nullptr or a pointer to a message
FuturePointers == {NullPtr} \cup { <<m>> : m \in FutureMessages }

FrameTimesNs == { Millis(ft) : ft \in FrameTimes }

-----------------------------------------------------------------------------
(* The callers' inputs of the multiple-pointer tests: few times, many       *)
(* pointer lists                                                            *)

Mouse(id) == [id |-> id, toolType |-> "MOUSE"]

Unknown(id) == [id |-> id, toolType |-> "UNKNOWN"]

Palm(id) == [id |-> id, toolType |-> "PALM"]

Eraser(id) == [id |-> id, toolType |-> "ERASER"]

\* pointer lists that differ in count, in ids, in id order and in tool types
PointerTestPropertiesLists ==
    { <<Finger(0)>>,
      <<Finger(0), Finger(1)>>,
      <<Finger(1), Finger(0)>>,
      <<Finger(1), Finger(2)>>,
      <<Finger(0), Stylus(1)>>,
      <<Finger(0), Palm(1)>>,
      <<Mouse(0), Unknown(1), Finger(2)>>,
      <<Eraser(0)>> }

\* the samples of SinglePointerSingleSampleExtrapolation
PointerTestSamples ==
    { [eventTime |-> 5,  x |-> 1, y |-> 2, touchMajor |-> 1, isResampled |-> FALSE],
      [eventTime |-> 10, x |-> 2, y |-> 4, touchMajor |-> 2, isResampled |-> FALSE] }

PointerTestFutureSamples ==
    { [eventTime |-> 15, x |-> 4, y |-> 8, touchMajor |-> 3, isResampled |-> FALSE] }

\* resampleTime 11 ms
PointerTestFrameTimes == {16}

PointerTestSampleLists ==
    UNION { { l \in [1..n -> PointerTestSamples] :
                \A i \in 1..(n - 1) : l[i].eventTime <= l[i + 1].eventTime } :
            n \in 1..MaxSamples }

PointerTestMotionEvents ==
    { InputStream(l, 0, pp) :
        l \in PointerTestSampleLists, pp \in PointerTestPropertiesLists }

PointerTestFuturePointers ==
    {NullPtr} \cup
    { <<InputSample(s, pp)>> :
        s \in PointerTestFutureSamples, pp \in PointerTestPropertiesLists }

PointerTestFrameTimesNs == { Millis(ft) : ft \in PointerTestFrameTimes }

\* the caller holds no motion event
NoMotionEvent == InputStream(<<>>, 0, <<>>)

NoEntry == [mLatestSamples |-> <<>>, mPreviousDeviceId |-> NullOpt]

-----------------------------------------------------------------------------
(* BackendUnifiedServiceManager: binders, names and the cache's functions *)

\* sp<IBinder>: nullptr or one of two binder objects.  binder1 is a proxy of a
\* service hosted by another process, which can die; binder2 is a BBinder of
\* this process, which isBinderAlive() reports alive for ever.
NullBinder == "nullptr"

Binders == {"binder1", "binder2"}

RemoteBinders == {"binder1"}

\* service names looked up: one of kStaticCachableList and one that is not
ServiceNames == {"isub", "NewLibbinderCacheTest"}

\* of the names of kStaticCachableList, three
kStaticCachableList == {"activity", "isub", "window"}

\* the threads of the process that look services up
Threads == {"thread1", "thread2"}

\* values of ProcessState::getThreadPoolMaxTotalThreadCount(): no thread pool,
\* and the three threads binderCacheUnitTest's main sets
ThreadPoolMaxThreadCounts == {0, 3}

\* IBinder::isBinderAlive
isBinderAlive(binder, dead) == binder \notin dead

\* BinderCacheWithInvalidation: a map from service name to binder
EmptyCache == [key \in {} |-> NullBinder]

getItem(cache, key) ==
    IF key \in DOMAIN cache THEN cache[key] ELSE NullBinder

setItem(cache, key, item) ==
    [k \in DOMAIN cache \cup {key} |-> IF k = key THEN item ELSE cache[k]]

removeItem(cache, key, who) ==
    IF key \in DOMAIN cache /\ cache[key] = who
    THEN [k \in DOMAIN cache \ {key} |-> cache[k]]
    ELSE cache

isClientSideCachingEnabled_noThreadCheck(threadCount, serviceName) ==
    serviceName \in kStaticCachableList

isClientSideCachingEnabled_anyName(threadCount, serviceName) ==
    IF threadCount <= 0 THEN FALSE ELSE TRUE

\* BinderCacheWithInvalidation::isClientSideCachingEnabled(serviceName)
isClientSideCachingEnabled(threadCount, serviceName) ==
    IF threadCount <= 0
    THEN FALSE
    ELSE serviceName \in kStaticCachableList

updateCache_cacheNull(useCache, cache, threadCount, dead, serviceName, binder) ==
    IF ~useCache
    THEN cache
    ELSE IF /\ isClientSideCachingEnabled(threadCount, serviceName)
            /\ isBinderAlive(binder, dead)
         THEN setItem(cache, serviceName, binder)
         ELSE cache

updateCache_never(useCache, cache, threadCount, dead, serviceName, binder) ==
    cache

\* BackendUnifiedServiceManager::updateCache(serviceName, service), for a
\* service of tag binder: the cache it leaves
updateCache(useCache, cache, threadCount, dead, serviceName, binder) ==
    IF ~useCache
    THEN cache
    ELSE IF /\ binder # NullBinder
            /\ isClientSideCachingEnabled(threadCount, serviceName)
            /\ isBinderAlive(binder, dead)
         THEN setItem(cache, serviceName, binder)
         ELSE cache

returnIfCached_noAliveCheck(useCache, cache, dead, serviceName) ==
    IF ~useCache
    THEN NullOpt
    ELSE LET item == getItem(cache, serviceName)
         IN  IF item # NullBinder THEN Some(item) ELSE NullOpt

returnIfCached_noNullCheck(useCache, cache, dead, serviceName) ==
    IF ~useCache
    THEN NullOpt
    ELSE LET item == getItem(cache, serviceName)
         IN  IF isBinderAlive(item, dead) THEN Some(item) ELSE NullOpt

\* BackendUnifiedServiceManager::returnIfCached(serviceName, _out): the binder
\* put in *_out when it returns true, nothing when it returns false
returnIfCached(useCache, cache, dead, serviceName) ==
    IF ~useCache
    THEN NullOpt
    ELSE LET item == getItem(cache, serviceName)
         IN  IF item # NullBinder /\ isBinderAlive(item, dead)
             THEN Some(item)
             ELSE NullOpt

\* BackendUnifiedServiceManager::toBinderService(name, in, _out) for a service
\* of tag binder in a process without injected accessors: *_out = in
toBinderService(in) == in

\* the real service manager's checkService and getService2: the binder
\* registered under the name, nullptr when there is none
realCheckService(registered, name) == registered[name]

realGetService2(registered, name) == registered[name]

\* a thread that is in no lookup.  A thread's record keeps, of the call it
\* has returned from: the binder returned (out), whether that binder's process
\* was dead at the return (outDead), whether the real service manager was
\* asked (consultedReal), what it had under the name at the return
\* (registered), and the live binders that lookups of the name had returned
\* when the call began (before).
NoLookup ==
    [pc |-> "idle", op |-> "", name |-> "", out |-> NullBinder,
     outDead |-> FALSE, consultedReal |-> FALSE, registered |-> NullBinder,
     before |-> {}]

-----------------------------------------------------------------------------
(* The state machine *)

\* no fence: an sp<Fence> that holds nothing
NoFence == 0

\* FenceMonitor::FenceMonitor(name): the counters are 0, the queue is empty,
\* mStopped is false, and the monitor thread is started at loop()
FenceMonitorInit ==
    /\ mQueue = <<>>
    /\ mFencesQueued = 0
    /\ mFencesSignaled = 0
    /\ mStopped = FALSE
    /\ mMutex = "none"
    /\ monitor = [pc |-> "loop", fence |-> NoFence, fenceNum |-> 0]
    /\ caller = [pc |-> "idle", fence |-> NoFence]
    /\ destructor = "alive"
    /\ fences = <<>>
    /\ traced = [passedSignaled |-> {}, queued |-> <<>>, enqueued |-> <<>>,
                 waited |-> <<>>, removed |-> <<>>, waitedAtStop |-> 0]

\* BackendUnifiedServiceManager's constructor, in a build with or without
\* LIBBINDER_CLIENT_CACHE, behind a real service manager with no service
BackendUnifiedServiceManagerInit(useCache, threadCount) ==
    /\ kUseCache = useCache
    /\ threadPoolMaxTotalThreadCount = threadCount
    /\ innerSm = [name \in ServiceNames |-> NullBinder]
    /\ mCacheForGetService = EmptyCache
    /\ deadBinders = {}
    /\ lookup = [t \in Threads |-> NoLookup]
    /\ returnedLive = [name \in ServiceNames |-> {}]
    /\ overlapped = FALSE

LegacyResamplerInit ==
    /\ mLatestSamples = <<>>
    /\ mPreviousDeviceId = NullOpt
    /\ pc = "idle"
    /\ frameTime = 0
    /\ futureSample = NullPtr
    /\ originalMotionEvent = NoMotionEvent
    /\ motionEvent = NoMotionEvent
    /\ entry = NoEntry

Init ==
    /\ LegacyResamplerInit
    /\ BackendUnifiedServiceManagerInit(TRUE, 3)
    /\ FenceMonitorInit

\* LOG_IF(FATAL, ...) of canInterpolate, attemptInterpolation and
\* attemptExtrapolation: the process aborts
fatalAssertion(latest, future) ==
    IF future # NullPtr
    THEN latest = <<>>
    ELSE canExtrapolate(latest) /\ Len(latest) < 2

resampleMotionEventBody_staleDeviceId(buffer, previousDeviceId, ft, ev, future) ==
    LET resampleTime == ft - RESAMPLE_LATENCY
        latest == updateLatestSamples(
                      LatestSamplesOnEntry(buffer, previousDeviceId, ev), ev)
        fatal == fatalAssertion(latest, future)
        sample == IF future # NullPtr
                  THEN attemptInterpolation(latest, resampleTime, future[1])
                  ELSE attemptExtrapolation(latest, resampleTime)
    IN  [mLatestSamples |-> latest,
         mPreviousDeviceId |-> IF has_value(previousDeviceId)
                               THEN previousDeviceId
                               ELSE Some(ev.mDeviceId),
         aborted |-> fatal,
         motionEvent |-> IF ~fatal /\ has_value(sample)
                         THEN addSampleToMotionEvent(value(sample), ev)
                         ELSE ev]

resampleMotionEventBody_noLatency(buffer, previousDeviceId, ft, ev, future) ==
    LET resampleTime == ft
        latest == updateLatestSamples(
                      LatestSamplesOnEntry(buffer, previousDeviceId, ev), ev)
        fatal == fatalAssertion(latest, future)
        sample == IF future # NullPtr
                  THEN attemptInterpolation(latest, resampleTime, future[1])
                  ELSE attemptExtrapolation(latest, resampleTime)
    IN  [mLatestSamples |-> latest,
         mPreviousDeviceId |-> Some(ev.mDeviceId),
         aborted |-> fatal,
         motionEvent |-> IF ~fatal /\ has_value(sample)
                         THEN addSampleToMotionEvent(value(sample), ev)
                         ELSE ev]

resampleMotionEventBody_clearAfterUpdate(buffer, previousDeviceId, ft, ev, future) ==
    LET resampleTime == ft - RESAMPLE_LATENCY
        latest == LatestSamplesOnEntry(
                      updateLatestSamples(buffer, ev), previousDeviceId, ev)
        fatal == fatalAssertion(latest, future)
        sample == IF future # NullPtr
                  THEN attemptInterpolation(latest, resampleTime, future[1])
                  ELSE attemptExtrapolation(latest, resampleTime)
    IN  [mLatestSamples |-> latest,
         mPreviousDeviceId |-> Some(ev.mDeviceId),
         aborted |-> fatal,
         motionEvent |-> IF ~fatal /\ has_value(sample)
                         THEN addSampleToMotionEvent(value(sample), ev)
                         ELSE ev]

\* the body of resampleMotionEvent on a resampler whose members are buffer and
\* previousDeviceId: the members and the motion event it leaves, or the abort
resampleMotionEventBody(buffer, previousDeviceId, ft, ev, future) ==
    LET resampleTime == ft - RESAMPLE_LATENCY
        latest == updateLatestSamples(
                      LatestSamplesOnEntry(buffer, previousDeviceId, ev), ev)
        fatal == fatalAssertion(latest, future)
        sample == IF future # NullPtr
                  THEN attemptInterpolation(latest, resampleTime, future[1])
                  ELSE attemptExtrapolation(latest, resampleTime)
    IN  [mLatestSamples |-> latest,
         mPreviousDeviceId |-> Some(ev.mDeviceId),
         aborted |-> fatal,
         motionEvent |-> IF ~fatal /\ has_value(sample)
                         THEN addSampleToMotionEvent(value(sample), ev)
                         ELSE ev]

\* LegacyResampler::resampleMotionEvent(frameTime, motionEvent, futureSample)
resampleMotionEvent(ft, ev, future) ==
    LET left == resampleMotionEventBody(mLatestSamples, mPreviousDeviceId,
                                        ft, ev, future)
    IN  /\ pc = "idle"
        /\ mLatestSamples' = left.mLatestSamples
        /\ mPreviousDeviceId' = left.mPreviousDeviceId
        /\ motionEvent' = left.motionEvent
        /\ originalMotionEvent' = ev
        /\ frameTime' = ft
        /\ futureSample' = future
        /\ entry' = [mLatestSamples |-> mLatestSamples,
                     mPreviousDeviceId |-> mPreviousDeviceId]
        /\ pc' = IF left.aborted THEN "aborted" ELSE "returned"
        /\ UNCHANGED binderVars
        /\ UNCHANGED fenceVars

\* the caller is done with the motion event and builds the next one
ReleaseMotionEvent ==
    /\ pc = "returned"
    /\ pc' = "idle"
    /\ frameTime' = 0
    /\ futureSample' = NullPtr
    /\ originalMotionEvent' = NoMotionEvent
    /\ motionEvent' = NoMotionEvent
    /\ entry' = NoEntry
    /\ UNCHANGED <<mLatestSamples, mPreviousDeviceId>>
    /\ UNCHANGED binderVars
    /\ UNCHANGED fenceVars

Next ==
    \/ \E ft \in FrameTimesNs, ev \in MotionEvents, future \in FuturePointers :
          resampleMotionEvent(ft, ev, future)
    \/ ReleaseMotionEvent

Spec == Init /\ [][Next]_vars

\* the same resampler, called with the inputs of the multiple-pointer tests
NextPointerTests ==
    \/ \E ft \in PointerTestFrameTimesNs, ev \in PointerTestMotionEvents,
          future \in PointerTestFuturePointers :
          resampleMotionEvent(ft, ev, future)
    \/ ReleaseMotionEvent

SpecPointerTests == Init /\ [][NextPointerTests]_vars

-----------------------------------------------------------------------------
(* BackendUnifiedServiceManager: the state machine *)

\* the live binders returned for a name, after a lookup has returned out
ReturnedLiveWith(name, out) ==
    IF out # NullBinder /\ isBinderAlive(out, deadBinders)
    THEN [returnedLive EXCEPT ![name] = @ \cup {out}]
    ELSE returnedLive

\* the first step of checkService and of getService2: returnIfCached.  On a
\* hit the call returns there; on a miss the thread goes on to the real
\* service manager, and holds no lock meanwhile.
LookupCached(t, op, name) ==
    LET cached == returnIfCached(kUseCache, mCacheForGetService, deadBinders,
                                 name)
    IN  /\ lookup[t].pc # "missed"
        /\ IF has_value(cached)
           THEN /\ lookup' = [lookup EXCEPT ![t] =
                                 [pc |-> "returned", op |-> op, name |-> name,
                                  out |-> value(cached),
                                  outDead |-> value(cached) \in deadBinders,
                                  consultedReal |-> FALSE,
                                  registered |-> innerSm[name],
                                  before |-> returnedLive[name]]]
                /\ returnedLive' = ReturnedLiveWith(name, value(cached))
           ELSE /\ lookup' = [lookup EXCEPT ![t] =
                                 [pc |-> "missed", op |-> op, name |-> name,
                                  out |-> NullBinder,
                                  outDead |-> FALSE,
                                  consultedReal |-> FALSE,
                                  registered |-> NullBinder,
                                  before |-> returnedLive[name]]]
                /\ UNCHANGED returnedLive
        /\ overlapped' = (overlapped \/
                          \E u \in Threads \ {t} :
                              lookup[u].pc = "missed" /\ lookup[u].name = name)
        /\ UNCHANGED <<kUseCache, threadPoolMaxTotalThreadCount, innerSm,
                       mCacheForGetService, deadBinders>>
        /\ UNCHANGED resamplerVars
        /\ UNCHANGED fenceVars

\* the rest of checkService and of getService2 after a miss: the real service
\* manager's answer, toBinderService, updateCache, return
LookupMissed(t, op, service) ==
    LET name == lookup[t].name
        out == toBinderService(service)
    IN  /\ lookup[t].pc = "missed"
        /\ lookup[t].op = op
        /\ mCacheForGetService' =
               updateCache(kUseCache, mCacheForGetService,
                           threadPoolMaxTotalThreadCount, deadBinders, name,
                           service)
        /\ lookup' = [lookup EXCEPT ![t] =
                         [@ EXCEPT !.pc = "returned", !.out = out,
                                   !.outDead = out \in deadBinders,
                                   !.consultedReal = TRUE,
                                   !.registered = innerSm[name]]]
        /\ returnedLive' = ReturnedLiveWith(name, out)
        /\ UNCHANGED <<kUseCache, threadPoolMaxTotalThreadCount, innerSm,
                       deadBinders, overlapped>>
        /\ UNCHANGED resamplerVars
        /\ UNCHANGED fenceVars

\* BackendUnifiedServiceManager::checkService(name, _out)
checkService(t, name) == LookupCached(t, "checkService", name)

checkServiceMissed(t) ==
    LookupMissed(t, "checkService", realCheckService(innerSm, lookup[t].name))

\* BackendUnifiedServiceManager::getService2(name, _out)
getService2(t, name) == LookupCached(t, "getService2", name)

getService2Missed(t) ==
    LookupMissed(t, "getService2", realGetService2(innerSm, lookup[t].name))

\* BackendUnifiedServiceManager::addService(name, service, ...)
addService(name, service) ==
    /\ innerSm' = [innerSm EXCEPT ![name] = service]
    /\ UNCHANGED <<kUseCache, threadPoolMaxTotalThreadCount,
                   mCacheForGetService, deadBinders, lookup, returnedLive,
                   overlapped>>
    /\ UNCHANGED resamplerVars
    /\ UNCHANGED fenceVars

\* the process that hosts a binder dies
ServerDeath(binder) ==
    /\ binder \in RemoteBinders \ deadBinders
    /\ deadBinders' = deadBinders \cup {binder}
    /\ UNCHANGED <<kUseCache, threadPoolMaxTotalThreadCount, innerSm,
                   mCacheForGetService, lookup, returnedLive, overlapped>>
    /\ UNCHANGED resamplerVars
    /\ UNCHANGED fenceVars

\* the death notification of a cached binder reaches the cache, some time
\* after the death: the entry is removed
binderDied(key) ==
    /\ key \in DOMAIN mCacheForGetService
    /\ mCacheForGetService[key] \in deadBinders
    /\ mCacheForGetService' =
           removeItem(mCacheForGetService, key, mCacheForGetService[key])
    /\ UNCHANGED <<kUseCache, threadPoolMaxTotalThreadCount, innerSm,
                   deadBinders, lookup, returnedLive, overlapped>>
    /\ UNCHANGED resamplerVars
    /\ UNCHANGED fenceVars

InitBinder ==
    /\ LegacyResamplerInit
    /\ FenceMonitorInit
    /\ \E useCache \in BOOLEAN, threadCount \in ThreadPoolMaxThreadCounts :
           BackendUnifiedServiceManagerInit(useCache, threadCount)

NextBinder ==
    \/ \E t \in Threads, name \in ServiceNames : checkService(t, name)
    \/ \E t \in Threads : checkServiceMissed(t)
    \/ \E t \in Threads, name \in ServiceNames : getService2(t, name)
    \/ \E t \in Threads : getService2Missed(t)
    \/ \E name \in ServiceNames, service \in Binders : addService(name, service)
    \/ \E binder \in Binders : ServerDeath(binder)
    \/ \E key \in ServiceNames : binderDied(key)

SpecBinder == InitBinder /\ [][NextBinder]_vars

-----------------------------------------------------------------------------
(* FenceMonitor: the state machine *)

\* std::condition_variable::notify_one: the monitor thread, if it is blocked
\* in mCondition.wait, is woken and has to take the mutex again
notify_one(thread) ==
    IF thread.pc = "cvWait" THEN [thread EXCEPT !.pc = "cvNotified"] ELSE thread

\* Fence::getSignalTime() != Fence::SIGNAL_TIME_PENDING
hasSignaled(fence) == fences[fence] # "pending"

\* queueFence(fence), entry: a caller passes a new fence, whose state is
\* pending or already signaled, and takes mMutex
queueFenceLock(state) ==
    /\ destructor = "alive"
    /\ caller.pc = "idle"
    /\ mMutex = "none"
    /\ Len(fences) < MaxFences
    /\ fences' = Append(fences, state)
    /\ caller' = [pc |-> "locked", fence |-> Len(fences) + 1]
    /\ mMutex' = "caller"
    /\ traced' = IF state = "signaled"
                 THEN [traced EXCEPT !.passedSignaled = @ \cup {Len(fences) + 1}]
                 ELSE traced
    /\ UNCHANGED <<mQueue, mFencesQueued, mFencesSignaled, mStopped, monitor,
                   destructor>>
    /\ UNCHANGED <<resamplerVars, binderVars>>

\* queueFence, the fence has signaled: "fence <mFencesQueued> has signaled"
\* is traced and mFencesQueued is incremented
queueFenceSignaled ==
    /\ caller.pc = "locked"
    /\ hasSignaled(caller.fence)
    /\ traced' = [traced EXCEPT !.queued = Append(@, mFencesQueued)]
    /\ mFencesQueued' = mFencesQueued + 1
    /\ caller' = [caller EXCEPT !.pc = "counted"]
    /\ UNCHANGED <<mQueue, mFencesSignaled, mStopped, mMutex, monitor,
                   destructor, fences>>
    /\ UNCHANGED <<resamplerVars, binderVars>>

\* (variant: the signaled path increments mFencesQueued only)
queueFenceSignaledReturn_queuedOnly ==
    /\ caller.pc = "counted"
    /\ caller' = [pc |-> "idle", fence |-> NoFence]
    /\ mMutex' = "none"
    /\ UNCHANGED <<mQueue, mFencesQueued, mFencesSignaled, mStopped, monitor,
                   destructor, fences, traced>>
    /\ UNCHANGED <<resamplerVars, binderVars>>

\* then mFencesSignaled is incremented and the call returns
queueFenceSignaledReturn ==
    /\ caller.pc = "counted"
    /\ mFencesSignaled' = mFencesSignaled + 1
    /\ caller' = [pc |-> "idle", fence |-> NoFence]
    /\ mMutex' = "none"
    /\ UNCHANGED <<mQueue, mFencesQueued, mStopped, monitor, destructor,
                   fences, traced>>
    /\ UNCHANGED <<resamplerVars, binderVars>>

\* (variant: the pending fence is pushed at the front of the queue)
queueFencePending_pushFront ==
    /\ caller.pc = "locked"
    /\ ~hasSignaled(caller.fence)
    /\ traced' = [traced EXCEPT !.queued = Append(@, mFencesQueued),
                                !.enqueued = Append(@, caller.fence)]
    /\ mQueue' = <<caller.fence>> \o mQueue
    /\ monitor' = notify_one(monitor)
    /\ caller' = [caller EXCEPT !.pc = "pushed"]
    /\ UNCHANGED <<mFencesQueued, mFencesSignaled, mStopped, mMutex,
                   destructor, fences>>
    /\ UNCHANGED <<resamplerVars, binderVars>>

\* queueFence, the fence is pending: "Trace fence <mFencesQueued>" is traced,
\* the fence is pushed at the back and the condition is notified
queueFencePending ==
    /\ caller.pc = "locked"
    /\ ~hasSignaled(caller.fence)
    /\ traced' = [traced EXCEPT !.queued = Append(@, mFencesQueued),
                                !.enqueued = Append(@, caller.fence)]
    /\ mQueue' = Append(mQueue, caller.fence)
    /\ monitor' = notify_one(monitor)
    /\ caller' = [caller EXCEPT !.pc = "pushed"]
    /\ UNCHANGED <<mFencesQueued, mFencesSignaled, mStopped, mMutex,
                   destructor, fences>>
    /\ UNCHANGED <<resamplerVars, binderVars>>

\* then mFencesQueued is incremented and the call returns
queueFencePendingReturn ==
    /\ caller.pc = "pushed"
    /\ mFencesQueued' = mFencesQueued + 1
    /\ caller' = [pc |-> "idle", fence |-> NoFence]
    /\ mMutex' = "none"
    /\ UNCHANGED <<mQueue, mFencesSignaled, mStopped, monitor, destructor,
                   fences, traced>>
    /\ UNCHANGED <<resamplerVars, binderVars>>

\* the read of mStopped outside the mutex: mStopped is declared in
\* FenceMonitor.h as an atomic flag, so the read yields the value last stored
atomicLoad(flag) == flag

\* loop(): while (!mStopped) threadLoop()
loop ==
    /\ monitor.pc = "loop"
    /\ monitor' = [monitor EXCEPT
                      !.pc = IF atomicLoad(mStopped) THEN "exited" ELSE "enter"]
    /\ UNCHANGED <<mQueue, mFencesQueued, mFencesSignaled, mStopped, mMutex,
                   caller, destructor, fences, traced>>
    /\ UNCHANGED <<resamplerVars, binderVars>>

\* threadLoop(): the thread takes mMutex, on entry and after a wake-up
threadLoopLock ==
    /\ monitor.pc \in {"enter", "cvNotified"}
    /\ mMutex = "none"
    /\ mMutex' = "monitor"
    /\ monitor' = [monitor EXCEPT !.pc = "locked"]
    /\ UNCHANGED <<mQueue, mFencesQueued, mFencesSignaled, mStopped, caller,
                   destructor, fences, traced>>
    /\ UNCHANGED <<resamplerVars, binderVars>>

\* while (mQueue.empty() && !mStopped) mCondition.wait(lock): the mutex is
\* released and the thread blocks
threadLoopWait ==
    /\ monitor.pc = "locked"
    /\ mQueue = <<>> /\ ~mStopped
    /\ mMutex' = "none"
    /\ monitor' = [monitor EXCEPT !.pc = "cvWait"]
    /\ UNCHANGED <<mQueue, mFencesQueued, mFencesSignaled, mStopped, caller,
                   destructor, fences, traced>>
    /\ UNCHANGED <<resamplerVars, binderVars>>

\* mCondition.wait may return without a notification
spuriousWakeup ==
    /\ monitor.pc = "cvWait"
    /\ monitor' = [monitor EXCEPT !.pc = "cvNotified"]
    /\ UNCHANGED <<mQueue, mFencesQueued, mFencesSignaled, mStopped, mMutex,
                   caller, destructor, fences, traced>>
    /\ UNCHANGED <<resamplerVars, binderVars>>

\* if (mStopped) return
threadLoopStopped ==
    /\ monitor.pc = "locked"
    /\ mStopped
    /\ mMutex' = "none"
    /\ monitor' = [monitor EXCEPT !.pc = "loop"]
    /\ UNCHANGED <<mQueue, mFencesQueued, mFencesSignaled, mStopped, caller,
                   destructor, fences, traced>>
    /\ UNCHANGED <<resamplerVars, binderVars>>

\* fence = mQueue[0]; fenceNum = mFencesSignaled; the mutex is released and
\* the thread calls fence->waitForever("waiting for <name> <fenceNum>")
threadLoopTake ==
    /\ monitor.pc = "locked"
    /\ mQueue # <<>> /\ ~mStopped
    /\ monitor' = [pc |-> "waiting", fence |-> mQueue[1],
                   fenceNum |-> mFencesSignaled]
    /\ traced' = [traced EXCEPT !.waited = Append(@, mQueue[1])]
    /\ mMutex' = "none"
    /\ UNCHANGED <<mQueue, mFencesQueued, mFencesSignaled, mStopped, caller,
                   destructor, fences>>
    /\ UNCHANGED <<resamplerVars, binderVars>>

\* waitForever returns: OK when the fence has signaled, an error when the
\* fence is in error
waitForeverReturns ==
    /\ monitor.pc = "waiting"
    /\ fences[monitor.fence] \in {"signaled", "error"}
    /\ monitor' = [monitor EXCEPT !.pc = "waited"]
    /\ UNCHANGED <<mQueue, mFencesQueued, mFencesSignaled, mStopped, mMutex,
                   caller, destructor, fences, traced>>
    /\ UNCHANGED <<resamplerVars, binderVars>>

\* the last block of threadLoop: the mutex is taken and the front is popped
threadLoopPop ==
    /\ monitor.pc = "waited"
    /\ mMutex = "none"
    /\ mMutex' = "monitor"
    /\ traced' = [traced EXCEPT !.removed = Append(@, mQueue[1])]
    /\ mQueue' = Tail(mQueue)
    /\ monitor' = [monitor EXCEPT !.pc = "popped"]
    /\ UNCHANGED <<mFencesQueued, mFencesSignaled, mStopped, caller,
                   destructor, fences>>
    /\ UNCHANGED <<resamplerVars, binderVars>>

\* then mFencesSignaled is incremented, and threadLoop returns to loop()
threadLoopSignaled ==
    /\ monitor.pc = "popped"
    /\ mFencesSignaled' = mFencesSignaled + 1
    /\ mMutex' = "none"
    /\ monitor' = [monitor EXCEPT !.pc = "loop"]
    /\ UNCHANGED <<mQueue, mFencesQueued, mStopped, caller, destructor,
                   fences, traced>>
    /\ UNCHANGED <<resamplerVars, binderVars>>

\* a pending fence signals, or turns out to be in error
fenceCompletes(fence, state) ==
    /\ fences[fence] = "pending"
    /\ fences' = [fences EXCEPT ![fence] = state]
    /\ UNCHANGED <<mQueue, mFencesQueued, mFencesSignaled, mStopped, mMutex,
                   monitor, caller, destructor, traced>>
    /\ UNCHANGED <<resamplerVars, binderVars>>

\* ~FenceMonitor(): the mutex is taken and mStopped is set
destructorStop ==
    /\ destructor = "alive"
    /\ caller.pc = "idle"
    /\ mMutex = "none"
    /\ mMutex' = "destructor"
    /\ mStopped' = TRUE
    /\ destructor' = "stopped"
    /\ traced' = [traced EXCEPT !.waitedAtStop = Len(traced.waited)]
    /\ UNCHANGED <<mQueue, mFencesQueued, mFencesSignaled, monitor, caller,
                   fences>>
    /\ UNCHANGED <<resamplerVars, binderVars>>

\* (variant: the destructor releases the mutex without notifying)
destructorNotify_noNotify ==
    /\ destructor = "stopped"
    /\ mMutex' = "none"
    /\ destructor' = "joining"
    /\ UNCHANGED <<mQueue, mFencesQueued, mFencesSignaled, mStopped, monitor,
                   caller, fences, traced>>
    /\ UNCHANGED <<resamplerVars, binderVars>>

\* mCondition.notify_one(), and the mutex is released
destructorNotify ==
    /\ destructor = "stopped"
    /\ monitor' = notify_one(monitor)
    /\ mMutex' = "none"
    /\ destructor' = "joining"
    /\ UNCHANGED <<mQueue, mFencesQueued, mFencesSignaled, mStopped, caller,
                   fences, traced>>
    /\ UNCHANGED <<resamplerVars, binderVars>>

\* mThread.join() returns when loop() has returned
destructorJoin ==
    /\ destructor = "joining"
    /\ monitor.pc = "exited"
    /\ destructor' = "done"
    /\ UNCHANGED <<mQueue, mFencesQueued, mFencesSignaled, mStopped, mMutex,
                   monitor, caller, fences, traced>>
    /\ UNCHANGED <<resamplerVars, binderVars>>

QueueFenceCalls ==
    \/ \E state \in {"pending", "signaled"} : queueFenceLock(state)
    \/ queueFenceSignaled
    \/ queueFenceSignaledReturn
    \/ queueFencePending
    \/ queueFencePendingReturn

MonitorThread ==
    \/ loop
    \/ threadLoopLock
    \/ threadLoopWait
    \/ threadLoopStopped
    \/ threadLoopTake
    \/ waitForeverReturns
    \/ threadLoopPop
    \/ threadLoopSignaled

Destructor ==
    \/ destructorStop
    \/ destructorNotify
    \/ destructorJoin

FencesComplete ==
    \E fence \in 1..Len(fences), state \in {"signaled", "error"} :
        fenceCompletes(fence, state)

NextFenceMonitor ==
    \/ QueueFenceCalls
    \/ MonitorThread
    \/ spuriousWakeup
    \/ Destructor
    \/ FencesComplete

SpecFenceMonitor == Init /\ [][NextFenceMonitor]_vars

\* the fence the monitor thread is waiting on signals or fails
waitedFenceCompletes ==
    /\ monitor.pc = "waiting"
    /\ \E state \in {"signaled", "error"} : fenceCompletes(monitor.fence, state)

\* The monitor thread and the thread running the destructor are scheduled
\* whenever they can take a step, and a fence wait in progress returns.
\* Nothing obliges a caller to call queueFence or to destroy the monitor, and
\* nothing obliges a spurious wake-up to happen.
SpecFenceMonitorLive ==
    /\ Init
    /\ [][NextFenceMonitor]_vars
    /\ WF_vars(MonitorThread)
    /\ WF_vars(waitedFenceCompletes)
    /\ WF_vars(destructorNotify)
    /\ WF_vars(destructorJoin)

-----------------------------------------------------------------------------
(* What a returned call shows *)

Returned == pc = "returned"

NumSamples(ev) == Len(ev.mSampleEventTimes)

\* the call appended a sample to motionEvent
Appended ==
    /\ Returned
    /\ NumSamples(motionEvent) = NumSamples(originalMotionEvent) + 1

Interpolated == Appended /\ futureSample # NullPtr

Extrapolated == Appended /\ futureSample = NullPtr

AppendedEventTime == motionEvent.mSampleEventTimes[NumSamples(motionEvent)]

\* coordinates of pointer i (from 1) of the appended sample
AppendedCoords(i) ==
    motionEvent.mSamplePointerCoords[
        NumSamples(originalMotionEvent) * getPointerCount(originalMotionEvent) + i]

\* coordinates of pointer i (from 1) of the latest sample passed in
LatestCoords(i) ==
    originalMotionEvent.mSamplePointerCoords[
        (NumSamples(originalMotionEvent) - 1) * getPointerCount(originalMotionEvent) + i]

LatestEventTime ==
    originalMotionEvent.mSampleEventTimes[NumSamples(originalMotionEvent)]

\* the point at fraction num/den of the way from a to b
PointOnLine(a, b, num, den) == FAdd(a, FMul(Float(num, den), FSub(b, a)))

-----------------------------------------------------------------------------
(* Claims *)

\* C1: a call changes the number of samples of motionEvent by 0 or by 1; it
\* never appends more than one sample and never removes one.
C1_SampleCountMonotonic ==
    Returned =>
        NumSamples(motionEvent) - NumSamples(originalMotionEvent) \in {0, 1}

\* a later call of a sequence of calls appended a sample
C1_Witness == Appended /\ has_value(entry.mPreviousDeviceId)

\* C2: every sample the event held before the call is unchanged; when nothing
\* is appended the event equals its input, and an appended sample comes after
\* all existing samples, nothing else in the sample list changing.
C2_ExistingSamplesUnchanged ==
    Returned =>
        LET n == NumSamples(originalMotionEvent)
            p == getPointerCount(originalMotionEvent)
        IN  /\ NumSamples(motionEvent) >= n
            /\ SubSeq(motionEvent.mSampleEventTimes, 1, n) =
                   originalMotionEvent.mSampleEventTimes
            /\ SubSeq(motionEvent.mSamplePointerCoords, 1, n * p) =
                   originalMotionEvent.mSamplePointerCoords
            /\ NumSamples(motionEvent) = n => motionEvent = originalMotionEvent
            /\ NumSamples(motionEvent) # n =>
                   /\ Len(motionEvent.mSampleEventTimes) = n + 1
                   /\ Len(motionEvent.mSamplePointerCoords) = (n + 1) * p

\* a sample was appended to an event of two samples and two pointers, one of
\* the existing samples being marked as resampled
C2_Witness ==
    /\ Appended
    /\ NumSamples(originalMotionEvent) = 2
    /\ getPointerCount(originalMotionEvent) = 2
    /\ originalMotionEvent.mSamplePointerCoords[1].isResampled

\* C3: a call leaves the event's device id, action, action button, button
\* state, flags, edge flags, classification, pointer count, meta state, source,
\* x and y precision, down time, display id and id as they were.
C3_MetaDataDidNotMutate ==
    Returned =>
        /\ motionEvent.mDeviceId = originalMotionEvent.mDeviceId
        /\ motionEvent.mAction = originalMotionEvent.mAction
        /\ motionEvent.mActionButton = originalMotionEvent.mActionButton
        /\ motionEvent.mButtonState = originalMotionEvent.mButtonState
        /\ motionEvent.mFlags = originalMotionEvent.mFlags
        /\ motionEvent.mEdgeFlags = originalMotionEvent.mEdgeFlags
        /\ motionEvent.mClassification = originalMotionEvent.mClassification
        /\ getPointerCount(motionEvent) = getPointerCount(originalMotionEvent)
        /\ motionEvent.mMetaState = originalMotionEvent.mMetaState
        /\ motionEvent.mSource = originalMotionEvent.mSource
        /\ motionEvent.mXPrecision = originalMotionEvent.mXPrecision
        /\ motionEvent.mYPrecision = originalMotionEvent.mYPrecision
        /\ motionEvent.mDownTime = originalMotionEvent.mDownTime
        /\ motionEvent.mDisplayId = originalMotionEvent.mDisplayId
        /\ motionEvent.mId = originalMotionEvent.mId

\* a sample was appended to an event of the second device
C3_Witness == Appended /\ originalMotionEvent.mDeviceId = 1

\* C4: every pointer of an appended sample has isResampled = TRUE, whatever
\* the isResampled values of the two endpoint samples.
C4_ResampledFlag ==
    Appended =>
        \A i \in 1..getPointerCount(originalMotionEvent) :
            AppendedCoords(i).isResampled

\* an extrapolated sample whose endpoints are both not marked as resampled
C4_Witness ==
    /\ Extrapolated
    /\ \A k \in 1..2 : \A i \in 1..Len(mLatestSamples[k].pointers) :
          ~mLatestSamples[k].pointers[i].coords.isResampled

\* C5 (as claimed): an interpolated sample is synthesized at the time passed
\* as the first argument: its event time is frameTime and its coordinates lie
\* at frameTime on the line from the latest sample to the future sample.
C5_SynthesizedAtFirstArgument ==
    Interpolated =>
        LET future == futureSample[1]
            delta == future.eventTime - LatestEventTime
        IN  /\ AppendedEventTime = frameTime
            /\ \A i \in 1..getPointerCount(originalMotionEvent) :
                  /\ AppendedCoords(i).x =
                         PointOnLine(LatestCoords(i).x, future.pointers[i].coords.x,
                                     frameTime - LatestEventTime, delta)
                  /\ AppendedCoords(i).y =
                         PointOnLine(LatestCoords(i).y, future.pointers[i].coords.y,
                                     frameTime - LatestEventTime, delta)

\* C6: an interpolated sample lies on the line from past (the latest sample
\* passed in) to future: with delta = future.eventTime - past.eventTime and
\* alpha = (t - past.eventTime) / delta, t the appended event time, x and y of
\* pointer i are past + alpha * (future - past) of pointer i of both.
C6_InterpolationIsLinear ==
    Interpolated =>
        LET future == futureSample[1]
            delta == future.eventTime - LatestEventTime
            t == AppendedEventTime
        IN  \A i \in 1..getPointerCount(originalMotionEvent) :
              /\ AppendedCoords(i).x =
                     PointOnLine(LatestCoords(i).x, future.pointers[i].coords.x,
                                 t - LatestEventTime, delta)
              /\ AppendedCoords(i).y =
                     PointOnLine(LatestCoords(i).y, future.pointers[i].coords.y,
                                 t - LatestEventTime, delta)

\* a sample interpolated for an event of two samples and two pointers, at a
\* time strictly between past and future
C6_Witness ==
    /\ Interpolated
    /\ NumSamples(originalMotionEvent) = 2
    /\ getPointerCount(originalMotionEvent) = 2
    /\ originalMotionEvent.mSampleEventTimes[1] # LatestEventTime
    /\ LatestEventTime < AppendedEventTime
    /\ AppendedEventTime < futureSample[1].eventTime

\* C7: an extrapolated sample has event time min(T, present + min(delta/2,
\* 8 ms)), T = frameTime - 5 ms being the resample time, and x and y equal to
\* past + alpha * (present - past) with alpha = (event time - past) / delta;
\* so it is the same for every T at or beyond the horizon, and samples at 5 ms
\* and 25 ms clamp to 33 ms, alpha 7/5.
C7_ExtrapolationHorizon ==
    Extrapolated =>
        LET past == mLatestSamples[1]
            present == mLatestSamples[2]
            delta == present.eventTime - past.eventTime
            T == frameTime - Millis(5)
            half == delta \div 2
            horizon == present.eventTime +
                           (IF half < Millis(8) THEN half ELSE Millis(8))
            t == AppendedEventTime
        IN  /\ t = (IF T < horizon THEN T ELSE horizon)
            /\ \A i \in 1..Len(present.pointers) :
                  /\ AppendedCoords(i).x =
                         PointOnLine(past.pointers[i].coords.x,
                                     present.pointers[i].coords.x,
                                     t - past.eventTime, delta)
                  /\ AppendedCoords(i).y =
                         PointOnLine(past.pointers[i].coords.y,
                                     present.pointers[i].coords.y,
                                     t - past.eventTime, delta)
            /\ (past.eventTime = Millis(5) /\ present.eventTime = Millis(25)
                    /\ T >= Millis(33)) =>
                  /\ t = Millis(33)
                  /\ \A i \in 1..Len(present.pointers) :
                        AppendedCoords(i).x =
                            PointOnLine(past.pointers[i].coords.x,
                                        present.pointers[i].coords.x, 7, 5)

\* samples at 5 ms and 25 ms extrapolated for a resample time of 43 ms
C7_Witness ==
    /\ Extrapolated
    /\ mLatestSamples[1].eventTime = Millis(5)
    /\ mLatestSamples[2].eventTime = Millis(25)
    /\ frameTime = Millis(48)
    /\ AppendedEventTime = Millis(33)

\* C8: without a future sample, with two samples in the window and matching
\* resampleable pointers, a sample is appended exactly if
\* 2 ms <= present.eventTime - past.eventTime <= 20 ms.
C8_ExtrapolationDeltaBounds ==
    (/\ Returned
     /\ futureSample = NullPtr
     /\ Len(mLatestSamples) = 2
     /\ pointerPropertiesResampleable(mLatestSamples[2], mLatestSamples[1])) =>
        LET delta == mLatestSamples[2].eventTime - mLatestSamples[1].eventTime
        IN  /\ Appended <=> (Millis(2) <= delta /\ delta <= Millis(20))
            /\ delta \in {Millis(2), Millis(20)} => Appended
            /\ delta \in {Millis(1), Millis(21)} => ~Appended
            /\ delta <= 0 => ~Appended

\* a sample extrapolated from two samples exactly 20 ms apart
C8_Witness ==
    /\ Extrapolated
    /\ mLatestSamples[2].eventTime - mLatestSamples[1].eventTime = Millis(20)

C10_NotEnoughData ==
    Returned =>
        LET first == ~has_value(entry.mPreviousDeviceId)
            deviceChanged ==
                /\ has_value(entry.mPreviousDeviceId)
                /\ value(entry.mPreviousDeviceId) # originalMotionEvent.mDeviceId
        IN  /\ (futureSample = NullPtr /\ Len(mLatestSamples) < 2) => ~Appended
            /\ Len(mLatestSamples) < 2 <=>
                   (/\ NumSamples(originalMotionEvent) = 1
                    /\ (first \/ deviceChanged))

\* a single-sample event of another device, with no future sample, arrives
\* at a resampler that holds two samples, and is not resampled
C10_Witness ==
    /\ Returned
    /\ ~Appended
    /\ futureSample = NullPtr
    /\ NumSamples(originalMotionEvent) = 1
    /\ Len(entry.mLatestSamples) = 2
    /\ value(entry.mPreviousDeviceId) # originalMotionEvent.mDeviceId
    /\ Len(mLatestSamples) = 1

\* the device id of the call differs from the one the previous call left
DeviceChanged ==
    /\ Returned
    /\ has_value(entry.mPreviousDeviceId)
    /\ value(entry.mPreviousDeviceId) # originalMotionEvent.mDeviceId

\* C11: a call whose motion event comes from another device than the previous
\* call's leaves the motion event and the window that a freshly constructed
\* resampler leaves for the same arguments; in particular a single-sample
\* event of the new device with no future sample is not resampled, whatever
\* the previous call left in the window.  After every call mPreviousDeviceId
\* is the device id of that call's motion event.
C11_DeviceChangeReset ==
    Returned =>
        /\ mPreviousDeviceId = Some(originalMotionEvent.mDeviceId)
        /\ DeviceChanged =>
              LET fresh == resampleMotionEventBody(
                               <<>>, NullOpt, frameTime, originalMotionEvent,
                               futureSample)
              IN  /\ motionEvent = fresh.motionEvent
                  /\ mLatestSamples = fresh.mLatestSamples
                  /\ (NumSamples(originalMotionEvent) = 1 /\ futureSample = NullPtr)
                        => motionEvent = originalMotionEvent

\* the previous device left two samples, and the new device's single sample
\* could have been extrapolated from the later of them
C11_Witness ==
    /\ DeviceChanged
    /\ Len(entry.mLatestSamples) = 2
    /\ NumSamples(originalMotionEvent) = 1
    /\ futureSample = NullPtr
    /\ canExtrapolate(updateLatestSamples(entry.mLatestSamples, originalMotionEvent))
    /\ motionEvent = originalMotionEvent
    /\ Len(mLatestSamples) = 1

\* the sample of a single-sample motion event, as updateLatestSamples stores it
OnlySample(ev) == SampleOfMotionEvent(ev, 0)

-----------------------------------------------------------------------------
(* Pointer gating, stated on the arguments of the call *)

\* the tool types the claims name as resampleable
ResampleableToolTypes == {"FINGER", "MOUSE", "STYLUS", "UNKNOWN"}

\* pointer properties of a stored sample or of a message, by index
PropertiesOf(pointers) == [i \in 1..Len(pointers) |-> pointers[i].properties]

\* the first n pointers of a and b have the same ids
IdsMatch(n, a, b) == \A i \in 1..n : a[i].id = b[i].id

\* the first n pointers of a and b have the same, resampleable, tool types
ToolsMatch(n, a, b) ==
    \A i \in 1..n :
        a[i].toolType = b[i].toolType /\ a[i].toolType \in ResampleableToolTypes

\* the endpoints of interpolation: the latest sample passed in and the future
\* sample
TargetProperties == originalMotionEvent.mPointerProperties

FutureProperties == PropertiesOf(futureSample[1].pointers)

\* the endpoints of extrapolation: the window the call left
PastSample == FromEnd(mLatestSamples, 2)

PresentSample == FromEnd(mLatestSamples, 1)

\* C13: with a future sample, nothing is appended when the future sample has
\* fewer pointers than the motion event; when it has as many or more, and ids,
\* tool types and delta pass, a sample with exactly the event's pointers is
\* appended, computed from the future pointers at the same indexes: further
\* pointers of the future sample are ignored.
C13_InterpolationPointerCounts ==
    (Returned /\ futureSample # NullPtr) =>
        LET P == getPointerCount(originalMotionEvent)
            future == futureSample[1]
            delta == future.eventTime - LatestEventTime
        IN  /\ future.pointerCount < P => motionEvent = originalMotionEvent
            /\ ( /\ future.pointerCount >= P
                 /\ IdsMatch(P, TargetProperties, FutureProperties)
                 /\ ToolsMatch(P, TargetProperties, FutureProperties)
                 /\ delta >= RESAMPLE_MIN_DELTA )
               => /\ Appended
                  /\ motionEvent.mPointerProperties = TargetProperties
                  /\ Len(motionEvent.mSamplePointerCoords) =
                         (NumSamples(originalMotionEvent) + 1) * P
                  /\ \A i \in 1..P :
                        /\ AppendedCoords(i).x =
                               PointOnLine(LatestCoords(i).x,
                                           future.pointers[i].coords.x,
                                           AppendedEventTime - LatestEventTime, delta)
                        /\ AppendedCoords(i).y =
                               PointOnLine(LatestCoords(i).y,
                                           future.pointers[i].coords.y,
                                           AppendedEventTime - LatestEventTime, delta)

\* a one-pointer event interpolated against a two-pointer future sample
C13_Witness ==
    /\ Interpolated
    /\ getPointerCount(originalMotionEvent) = 1
    /\ futureSample[1].pointerCount = 2
    /\ Len(motionEvent.mSamplePointerCoords) = NumSamples(originalMotionEvent) + 1

\* C14: without a future sample and with two samples in the window, nothing is
\* appended when present has more pointers than past; when present has as many
\* or fewer, and ids, tool types and delta pass, a sample with exactly
\* present's pointers is appended, computed from the first pointers of past.
C14_ExtrapolationPointerCounts ==
    (Returned /\ futureSample = NullPtr /\ Len(mLatestSamples) = 2) =>
        LET n == Len(PresentSample.pointers)
            delta == PresentSample.eventTime - PastSample.eventTime
        IN  /\ n > Len(PastSample.pointers) => motionEvent = originalMotionEvent
            /\ ( /\ n <= Len(PastSample.pointers)
                 /\ IdsMatch(n, PropertiesOf(PresentSample.pointers),
                                PropertiesOf(PastSample.pointers))
                 /\ ToolsMatch(n, PropertiesOf(PresentSample.pointers),
                                  PropertiesOf(PastSample.pointers))
                 /\ delta >= RESAMPLE_MIN_DELTA
                 /\ delta <= RESAMPLE_MAX_DELTA )
               => /\ Appended
                  /\ n = getPointerCount(originalMotionEvent)
                  /\ motionEvent.mPointerProperties =
                         PropertiesOf(PresentSample.pointers)
                  /\ Len(motionEvent.mSamplePointerCoords) =
                         (NumSamples(originalMotionEvent) + 1) * n
                  /\ \A i \in 1..n :
                        /\ AppendedCoords(i).x =
                               PointOnLine(PastSample.pointers[i].coords.x,
                                           PresentSample.pointers[i].coords.x,
                                           AppendedEventTime - PastSample.eventTime,
                                           delta)
                        /\ AppendedCoords(i).y =
                               PointOnLine(PastSample.pointers[i].coords.y,
                                           PresentSample.pointers[i].coords.y,
                                           AppendedEventTime - PastSample.eventTime,
                                           delta)

\* a one-pointer sample extrapolated from a two-pointer past sample
C14_Witness ==
    /\ Extrapolated
    /\ Len(mLatestSamples) = 2
    /\ Len(PastSample.pointers) = 2
    /\ Len(PresentSample.pointers) = 1
    /\ Len(motionEvent.mSamplePointerCoords) = NumSamples(originalMotionEvent) + 1

\* C15: on both paths, if at some index below the target sample's pointer
\* count the pointer ids of the two endpoint samples differ, nothing is
\* appended; this covers the same ids in another order ([0, 1] against [1, 0])
\* and other ids ([0, 1] against [1, 2]).
C15_PointerIdentity ==
    Returned =>
        /\ ( /\ futureSample # NullPtr
             /\ \E i \in 1..Min(getPointerCount(originalMotionEvent),
                                futureSample[1].pointerCount) :
                    TargetProperties[i].id # FutureProperties[i].id )
           => motionEvent = originalMotionEvent
        /\ ( /\ futureSample = NullPtr
             /\ Len(mLatestSamples) = 2
             /\ \E i \in 1..Min(Len(PresentSample.pointers),
                                Len(PastSample.pointers)) :
                    PresentSample.pointers[i].properties.id #
                        PastSample.pointers[i].properties.id )
           => motionEvent = originalMotionEvent

\* MultiplePointerDifferentIdOrderExtrapolation: [1, 0] then [0, 1], fingers,
\* 5 ms apart; only the ids stand in the way
C15_Witness ==
    /\ Returned
    /\ futureSample = NullPtr
    /\ Len(mLatestSamples) = 2
    /\ PropertiesOf(PastSample.pointers) = <<Finger(1), Finger(0)>>
    /\ PropertiesOf(PresentSample.pointers) = <<Finger(0), Finger(1)>>
    /\ PresentSample.eventTime - PastSample.eventTime = Millis(5)
    /\ motionEvent = originalMotionEvent

\* the tool type at some index below n differs between a and b, or is one
\* that cannot be resampled
ToolsRefuse(n, a, b) ==
    \E i \in 1..n :
        \/ a[i].toolType # b[i].toolType
        \/ a[i].toolType \notin ResampleableToolTypes

\* C16: canResampleTool accepts exactly finger, mouse, stylus and unknown.  On
\* both paths nothing is appended if at some index below the target sample's
\* pointer count the tool types of the two endpoints differ (also when both are
\* resampleable) or the tool type is not resampleable (palm, eraser); equal
\* tool types among the four do not stand in the way of resampling.
C16_ToolTypes ==
    /\ \A pp \in PointerTestPropertiesLists : \A i \in 1..Len(pp) :
          canResampleTool(pp[i].toolType) <=>
              pp[i].toolType \in ResampleableToolTypes
    /\ (Returned /\ futureSample # NullPtr) =>
          LET P == getPointerCount(originalMotionEvent)
              F == futureSample[1].pointerCount
          IN  /\ ToolsRefuse(Min(P, F), TargetProperties, FutureProperties)
                    => motionEvent = originalMotionEvent
              /\ ( /\ F >= P
                   /\ IdsMatch(P, TargetProperties, FutureProperties)
                   /\ ~ToolsRefuse(P, TargetProperties, FutureProperties)
                   /\ futureSample[1].eventTime - LatestEventTime
                          >= RESAMPLE_MIN_DELTA )
                 => Appended
    /\ (Returned /\ futureSample = NullPtr /\ Len(mLatestSamples) = 2) =>
          LET present == PropertiesOf(PresentSample.pointers)
              past == PropertiesOf(PastSample.pointers)
              delta == PresentSample.eventTime - PastSample.eventTime
          IN  /\ ToolsRefuse(Min(Len(present), Len(past)), present, past)
                    => motionEvent = originalMotionEvent
              /\ ( /\ Len(present) <= Len(past)
                   /\ IdsMatch(Len(present), present, past)
                   /\ ~ToolsRefuse(Len(present), present, past)
                   /\ delta >= RESAMPLE_MIN_DELTA
                   /\ delta <= RESAMPLE_MAX_DELTA )
                 => Appended

\* a mouse, an unknown tool and a finger, interpolated
C16_Witness ==
    /\ Interpolated
    /\ TargetProperties = <<Mouse(0), Unknown(1), Finger(2)>>
    /\ FutureProperties = TargetProperties
    /\ AppendedCoords(1).isResampled
    /\ AppendedCoords(2).isResampled

\* some pointer among the first n of a has a tool type that cannot be resampled
SomeNotResampleable(n, a) == \E i \in 1..n : a[i].toolType \notin ResampleableToolTypes

\* C17, as stated: if any pointer of either endpoint sample has a
\* non-resampleable tool type, nothing is appended.
C17_AnyPointerNotResampleable ==
    Returned =>
        /\ ( /\ futureSample # NullPtr
             /\ \/ SomeNotResampleable(Len(TargetProperties), TargetProperties)
                \/ SomeNotResampleable(Len(FutureProperties), FutureProperties) )
           => motionEvent = originalMotionEvent
        /\ ( /\ futureSample = NullPtr
             /\ Len(mLatestSamples) = 2
             /\ \/ SomeNotResampleable(Len(PresentSample.pointers),
                                       PropertiesOf(PresentSample.pointers))
                \/ SomeNotResampleable(Len(PastSample.pointers),
                                       PropertiesOf(PastSample.pointers)) )
           => motionEvent = originalMotionEvent

\* C17, amended: if a pointer at an index below the target sample's pointer
\* count has a non-resampleable tool type in either endpoint sample, nothing
\* is appended.  The target is the event's latest sample with a future sample
\* and present without; pointers of the other endpoint at or beyond the
\* target's pointer count are not examined.
C17_CheckedPointerNotResampleable ==
    Returned =>
        /\ ( /\ futureSample # NullPtr
             /\ \/ SomeNotResampleable(Len(TargetProperties), TargetProperties)
                \/ SomeNotResampleable(
                       Min(Len(TargetProperties), Len(FutureProperties)),
                       FutureProperties) )
           => motionEvent = originalMotionEvent
        /\ ( /\ futureSample = NullPtr
             /\ Len(mLatestSamples) = 2
             /\ \/ SomeNotResampleable(Len(PresentSample.pointers),
                                       PropertiesOf(PresentSample.pointers))
                \/ SomeNotResampleable(
                       Min(Len(PresentSample.pointers), Len(PastSample.pointers)),
                       PropertiesOf(PastSample.pointers)) )
           => motionEvent = originalMotionEvent

\* the future sample has a palm where the event has a finger: refused
C17_Witness ==
    /\ Returned
    /\ futureSample # NullPtr
    /\ TargetProperties = <<Finger(0), Finger(1)>>
    /\ FutureProperties = <<Finger(0), Palm(1)>>
    /\ motionEvent = originalMotionEvent

\* C18: the appended value of an axis other than X and Y (here TOUCH_MAJOR) is,
\* for every pointer, that pointer's value on the endpoint alpha selects: the
\* earlier endpoint when alpha < 1, the later one otherwise.  The earlier and
\* later endpoints are the event's latest sample and the future sample when
\* interpolating, past and present when extrapolating; alpha < 1 means the
\* appended time lies before the later endpoint.
C18_OtherAxesPreserved ==
    /\ Interpolated =>
          \A i \in 1..getPointerCount(originalMotionEvent) :
              AppendedCoords(i).touchMajor =
                  IF AppendedEventTime < futureSample[1].eventTime
                  THEN LatestCoords(i).touchMajor
                  ELSE futureSample[1].pointers[i].coords.touchMajor
    /\ Extrapolated =>
          \A i \in 1..getPointerCount(originalMotionEvent) :
              AppendedCoords(i).touchMajor =
                  IF AppendedEventTime < PresentSample.eventTime
                  THEN PastSample.pointers[i].coords.touchMajor
                  ELSE PresentSample.pointers[i].coords.touchMajor

\* interpolated between the endpoints, whose TOUCH_MAJOR values differ: the
\* appended sample has the earlier one's
C18_Witness ==
    /\ Interpolated
    /\ LatestEventTime < AppendedEventTime
    /\ AppendedEventTime < futureSample[1].eventTime
    /\ LatestCoords(1).touchMajor # futureSample[1].pointers[1].coords.touchMajor
    /\ AppendedCoords(1).touchMajor = LatestCoords(1).touchMajor
    /\ AppendedCoords(1).x # LatestCoords(1).x

\* C19: whenever extrapolation appends a sample, alpha >= 1, that is, the
\* appended time is not before present's, and every pointer's coordinates are
\* initialised from present: the appended value of an axis other than X and Y
\* (here TOUCH_MAJOR) equals present's value for that pointer.
C19_ExtrapolationFromPresent ==
    Extrapolated =>
        /\ AppendedEventTime >= PresentSample.eventTime
        /\ \A i \in 1..Len(PresentSample.pointers) :
              AppendedCoords(i).touchMajor =
                  PresentSample.pointers[i].coords.touchMajor

\* the time the resampler aims at: resampleTime of resampleMotionEvent
ResampleTime == frameTime - RESAMPLE_LATENCY

\* C20: if the time the resampler aims at is not strictly greater than the
\* latest event time of the motion event, the call leaves the motion event as
\* it was, with or without a future sample.
C20_TargetNotAfterLatest ==
    (Returned /\ ResampleTime <= LatestEventTime) =>
        motionEvent = originalMotionEvent

\* C21: for every call whose frameTime is greater than the latest sample time
\* of motionEvent, an appended sample has an event time strictly greater than
\* that of the sample before it, the event's latest sample before the call.
C21_SamplesInTimeOrder ==
    (Appended /\ frameTime > LatestEventTime) =>
        AppendedEventTime > LatestEventTime

C23_InterpolationMaxDelta ==
    ( /\ Returned
      /\ futureSample # NullPtr
      /\ futureSample[1].eventTime - LatestEventTime > RESAMPLE_MAX_DELTA )
    => motionEvent = originalMotionEvent

\* C24: interpolation does not clamp alpha.  When a future sample is supplied,
\* pointer properties and delta pass and the resample time is later than the
\* future sample's event time, a sample is appended at the resample time, its
\* x and y lie on the line from the event's latest sample through the future
\* sample, beyond the latter, and its other axes are the future sample's.
C24_InterpolationNotClamped ==
    ( /\ Returned
      /\ futureSample # NullPtr
      /\ futureSample[1].pointerCount >= getPointerCount(originalMotionEvent)
      /\ IdsMatch(getPointerCount(originalMotionEvent),
                  TargetProperties, FutureProperties)
      /\ ToolsMatch(getPointerCount(originalMotionEvent),
                    TargetProperties, FutureProperties)
      /\ futureSample[1].eventTime - LatestEventTime >= RESAMPLE_MIN_DELTA
      /\ ResampleTime > futureSample[1].eventTime )
    => /\ Appended
       /\ AppendedEventTime = ResampleTime
       /\ \A i \in 1..getPointerCount(originalMotionEvent) :
             LET past == LatestCoords(i)
                 future == futureSample[1].pointers[i].coords
                 delta == futureSample[1].eventTime - LatestEventTime
             IN  /\ AppendedCoords(i).x =
                        PointOnLine(past.x, future.x,
                                    ResampleTime - LatestEventTime, delta)
                 /\ AppendedCoords(i).y =
                        PointOnLine(past.y, future.y,
                                    ResampleTime - LatestEventTime, delta)
                 /\ AppendedCoords(i).touchMajor = future.touchMajor

\* interpolated 3 ms beyond the future sample, away from both endpoints
C24_Witness ==
    /\ Interpolated
    /\ futureSample[1].eventTime = Millis(30)
    /\ AppendedEventTime = Millis(33)
    /\ LatestEventTime = Millis(25)
    /\ AppendedCoords(1).x # futureSample[1].pointers[1].coords.x
    /\ AppendedCoords(1).x # LatestCoords(1).x

\* C25: no call aborts.  For motion events with at least one sample the window
\* is nonempty whenever interpolation is attempted and has two samples
\* whenever extrapolation computes a sample, so every call returns.
C25_NeverFails ==
    /\ pc # "aborted"
    /\ Returned =>
          /\ NumSamples(originalMotionEvent) >= 1
          /\ Len(mLatestSamples) >= 1
          /\ ~fatalAssertion(mLatestSamples, futureSample)
          /\ Extrapolated => Len(mLatestSamples) = 2

\* the device changed, so the window was cleared, and the call interpolated
\* from the sample it had just stored
C25_Witness ==
    /\ DeviceChanged
    /\ Len(entry.mLatestSamples) = 2
    /\ Interpolated
    /\ Len(mLatestSamples) = 1

\* the window a call starts from, after the device check
WindowOnEntry ==
    LatestSamplesOnEntry(entry.mLatestSamples, entry.mPreviousDeviceId,
                         originalMotionEvent)

\* the samples of the motion event that the call ingests, oldest first: its
\* last two, or its only one
IngestedSamples ==
    LET n == NumSamples(originalMotionEvent)
    IN  IF n = 1 THEN <<SampleOfMotionEvent(originalMotionEvent, 0)>>
        ELSE <<SampleOfMotionEvent(originalMotionEvent, n - 2),
               SampleOfMotionEvent(originalMotionEvent, n - 1)>>

\* the last k elements of s, or all of s if it has fewer
LastOf(s, k) == IF Len(s) <= k THEN s ELSE SubSeq(s, Len(s) - k + 1, Len(s))

\* C30: the window never holds more than 2 samples, and after a call it holds
\* the most recently ingested samples in the order of ingestion: the last two
\* of what it held on entry followed by what the call ingested, the oldest
\* being evicted first.
C30_WindowBounded ==
    /\ Len(mLatestSamples) <= LatestSamplesCapacity
    /\ Returned =>
          mLatestSamples =
              LastOf(WindowOnEntry \o IngestedSamples, LatestSamplesCapacity)

\* a full window, a single-sample event: the oldest sample is evicted
C30_Witness ==
    /\ Returned
    /\ ~DeviceChanged
    /\ Len(entry.mLatestSamples) = 2
    /\ NumSamples(originalMotionEvent) = 1
    /\ entry.mLatestSamples[1] # entry.mLatestSamples[2]
    /\ mLatestSamples = <<entry.mLatestSamples[2], OnlySample(originalMotionEvent)>>

-----------------------------------------------------------------------------
(* What a returned lookup shows *)

LookupReturned(t) == lookup[t].pc = "returned"

\* the cache is compiled in and caches the name in this process
CachingEnabled(name) ==
    kUseCache /\ isClientSideCachingEnabled(threadPoolMaxTotalThreadCount, name)

\* the lookup that thread t has returned from came after a lookup of the same
\* name had returned the binder b, and b is still alive
ReturnedLiveBefore(t, b) ==
    /\ LookupReturned(t)
    /\ b \in lookup[t].before
    /\ isBinderAlive(b, deadBinders)

\* every lookup that came after one that returned a live binder of a cached
\* name returns that binder, without the real service manager
LaterLookupsHitCache ==
    \A t \in Threads :
        LookupReturned(t) /\ CachingEnabled(lookup[t].name)
        => \A b \in Binders :
               ReturnedLiveBefore(t, b)
               => lookup[t].out = b /\ ~lookup[t].consultedReal

\* without the cache, a lookup returns what the real service manager has
LookupsWithoutCache ==
    \A t \in Threads :
        LookupReturned(t) /\ ~kUseCache
        => lookup[t].consultedReal /\ lookup[t].out = lookup[t].registered

C27_NullNeverCached ==
    /\ \A key \in DOMAIN mCacheForGetService :
           mCacheForGetService[key] # NullBinder
    /\ \A t \in Threads :
           LookupReturned(t)
           => /\ ~lookup[t].consultedReal => lookup[t].out # NullBinder
              /\ lookup[t].before = {}
                 => /\ lookup[t].consultedReal
                    /\ lookup[t].out = lookup[t].registered

\* a lookup of a cachable name returned null, the service was added, and the
\* other thread's lookup got the added binder from the real service manager
C27_Witness ==
    \E t \in Threads, u \in Threads :
        /\ LookupReturned(t) /\ LookupReturned(u)
        /\ lookup[t].name = lookup[u].name
        /\ CachingEnabled(lookup[t].name)
        /\ lookup[u].out = NullBinder
        /\ lookup[t].before = {}
        /\ lookup[t].consultedReal
        /\ lookup[t].out \in Binders
        /\ getItem(mCacheForGetService, lookup[t].name) = lookup[t].out
        /\ isBinderAlive(lookup[t].out, deadBinders)

\* C28: a service whose name is not in the static cachable list is never
\* cached, and none is cached when the thread-pool max thread count is <= 0:
\* the cache has no entry for it, and every lookup of it consults the real
\* service manager and returns the binder registered there at that time.
C28_NotCachable ==
    \A name \in ServiceNames :
        name \notin kStaticCachableList \/ threadPoolMaxTotalThreadCount <= 0
        => /\ name \notin DOMAIN mCacheForGetService
           /\ \A t \in Threads :
                  LookupReturned(t) /\ lookup[t].name = name
                  => /\ lookup[t].consultedReal
                     /\ lookup[t].out = lookup[t].registered

\* in a build with the cache and a thread pool, a service of a name that is
\* not in the list was replaced after a lookup, and the next lookup returned
\* the new binder
C28_Witness ==
    \E t \in Threads :
        /\ LookupReturned(t)
        /\ kUseCache
        /\ threadPoolMaxTotalThreadCount > 0
        /\ lookup[t].name \notin kStaticCachableList
        /\ lookup[t].out \in Binders
        /\ \E b \in lookup[t].before : b # lookup[t].out /\ b \notin deadBinders

\* C29: a dead binder is never served from the cache.  A lookup answered by
\* the cache returns a binder whose process is alive; every other lookup
\* consults the real service manager and returns what is registered there
\* then, so a dead binder is returned only if the real service manager itself
\* still has it registered.
C29_DeadBinderNotServed ==
    \A t \in Threads :
        LookupReturned(t)
        => /\ ~lookup[t].consultedReal => ~lookup[t].outDead
           /\ lookup[t].consultedReal => lookup[t].out = lookup[t].registered
           /\ lookup[t].outDead => lookup[t].registered = lookup[t].out

\* a binder was returned and cached, its process died, another service was
\* added under the name, and the next lookup returned that one from the real
\* service manager
C29_Witness ==
    \E t \in Threads :
        /\ LookupReturned(t)
        /\ ~overlapped
        /\ CachingEnabled(lookup[t].name)
        /\ \E b \in lookup[t].before : b \in deadBinders
        /\ lookup[t].consultedReal
        /\ lookup[t].out \in Binders \ deadBinders
        /\ lookup[t].out = lookup[t].registered

-----------------------------------------------------------------------------
(* The window's members *)

PointerCount(sample) == Len(sample.pointers)

\* C31 as stated: in every reachable state all samples held in the window
\* have the same pointer count.
C31_WindowSamePointerCount ==
    \A i \in 1..Len(mLatestSamples), j \in 1..Len(mLatestSamples) :
        PointerCount(mLatestSamples[i]) = PointerCount(mLatestSamples[j])

\* C31, amended: the members a call has ingested (the last min(N, 2) members
\* of the window) have the pointer count of that call's motion event, so all
\* members have the same pointer count after a call with N >= 2; a member
\* kept from an earlier call keeps the pointer count of its own event.
C31_IngestedPointerCount ==
    Returned =>
        LET n == NumSamples(originalMotionEvent)
            k == IF n >= 2 THEN 2 ELSE 1
        IN  /\ Len(mLatestSamples) >= k
            /\ \A i \in 1..k :
                   PointerCount(FromEnd(mLatestSamples, i)) =
                       Len(originalMotionEvent.mPointerProperties)
            /\ n >= 2 => C31_WindowSamePointerCount

\* a single-sample event of another pointer count than the member kept from
\* the earlier call
C31_Witness ==
    /\ Returned
    /\ NumSamples(originalMotionEvent) = 1
    /\ Len(mLatestSamples) = 2
    /\ PointerCount(PresentSample) = Len(originalMotionEvent.mPointerProperties)
    /\ PointerCount(PastSample) # PointerCount(PresentSample)

\* sample s (from 1) of a motion event, read from the event's own fields: its
\* time, and for every pointer of the event its properties and coordinates
EventSample(ev, s) ==
    LET np == Len(ev.mPointerProperties)
    IN  [eventTime |-> ev.mSampleEventTimes[s],
         pointers |-> [p \in 1..np |->
                          [properties |-> ev.mPointerProperties[p],
                           coords |-> ev.mSamplePointerCoords[(s - 1) * np + p]]]]

\* what the device check leaves of the window the call found
KeptWindow == IF DeviceChanged THEN <<>> ELSE entry.mLatestSamples

EndpointOther ==
    IF futureSample # NullPtr
    THEN [eventTime |-> futureSample[1].eventTime,
          count |-> futureSample[1].pointerCount,
          pointers |-> futureSample[1].pointers]
    ELSE [eventTime |-> PastSample.eventTime,
          count |-> Len(PastSample.pointers),
          pointers |-> PastSample.pointers]

SamePointer(a, b) == a.id = b.id /\ a.toolType = b.toolType

\* C33: shape of the appended sample.  Whenever a sample is appended, the
\* pointer indexes read (those of the latest member) are within the pointer
\* count of both endpoint samples; the appended sample has exactly the motion
\* event's pointer count of coordinate records; record i lies on the line
\* through pointer i of both endpoints, and both carry the pointer id and tool
\* type of the event's pointer i; the event's pointer properties are unchanged.
C33_AppendedShape ==
    Appended =>
        LET P == Len(originalMotionEvent.mPointerProperties)
            target == PresentSample
            other == EndpointOther
            from == IF futureSample # NullPtr THEN target ELSE other
            to == IF futureSample # NullPtr THEN other ELSE target
            delta == to.eventTime - from.eventTime
        IN  /\ Len(target.pointers) = P
            /\ other.count >= P
            /\ Len(other.pointers) >= P
            /\ Len(motionEvent.mSamplePointerCoords) =
                   Len(originalMotionEvent.mSamplePointerCoords) + P
            /\ motionEvent.mPointerProperties =
                   originalMotionEvent.mPointerProperties
            /\ \A i \in 1..P :
                   /\ SamePointer(target.pointers[i].properties,
                                  originalMotionEvent.mPointerProperties[i])
                   /\ SamePointer(other.pointers[i].properties,
                                  originalMotionEvent.mPointerProperties[i])
                   /\ AppendedCoords(i).x =
                          PointOnLine(from.pointers[i].coords.x,
                                      to.pointers[i].coords.x,
                                      AppendedEventTime - from.eventTime, delta)
                   /\ AppendedCoords(i).y =
                          PointOnLine(from.pointers[i].coords.y,
                                      to.pointers[i].coords.y,
                                      AppendedEventTime - from.eventTime, delta)

\* an extrapolation for a one-pointer event whose past sample has a further
\* pointer, which is not read
C33_Witness ==
    /\ Extrapolated
    /\ originalMotionEvent.mPointerProperties = <<Finger(0)>>
    /\ PropertiesOf(PastSample.pointers) = <<Finger(0), Stylus(1)>>
    /\ Len(motionEvent.mSamplePointerCoords) =
           Len(originalMotionEvent.mSamplePointerCoords) + 1
    /\ AppendedEventTime > LatestEventTime

\* what a freshly constructed resampler leaves for the arguments of the call
FreshOutcome ==
    resampleMotionEventBody(<<>>, NullOpt, frameTime, originalMotionEvent,
                            futureSample)

\* C34: history independence.  For a call that supplies a future sample, or
\* whose motion event has at least 2 samples, the motion event the call
\* leaves (whether a sample is appended, its time and its coordinates) is
\* the one a freshly constructed resampler leaves for the same arguments,
\* whatever earlier calls the resampler has served; so any two resamplers
\* give the same result.
C34_HistoryIndependence ==
    (Returned /\ (futureSample # NullPtr \/ NumSamples(originalMotionEvent) >= 2))
        => motionEvent = FreshOutcome.motionEvent

\* a two-sample event extrapolated by a resampler that held two other samples
\* of the same device when the call began
C34_Witness ==
    /\ Extrapolated
    /\ NumSamples(originalMotionEvent) = 2
    /\ ~DeviceChanged
    /\ Len(entry.mLatestSamples) = 2
    /\ entry.mLatestSamples # mLatestSamples
    /\ motionEvent = FreshOutcome.motionEvent

\* the other case: a single-sample event without future sample, extrapolated
\* from a sample remembered from an earlier call, where a fresh resampler
\* appends nothing
HistoryUsed ==
    /\ Extrapolated
    /\ NumSamples(originalMotionEvent) = 1
    /\ FreshOutcome.motionEvent = originalMotionEvent

-----------------------------------------------------------------------------
(* alpha as the build computes it: float is IEEE 754 binary32, rounded to   *)
(* nearest even.  A finite non-zero float is [s, m, e] with sign s (1 or   *)
(* -1), mantissa 2^23 <= m < 2^24 and value s * m * 2^e; zero has m = 0.   *)

F32Two23 == 8388608

F32Two24 == 16777216

F32Two12 == 4096

F32Zero == [s |-> 1, m |-> 0, e |-> 0]

RECURSIVE F32Pow2(_)
F32Pow2(k) == IF k = 0 THEN 1 ELSE 2 * F32Pow2(k - 1)

\* shift a mantissa below 2^23 up until it is normal (exact)
RECURSIVE F32Normalize(_, _, _)
F32Normalize(s, m, e) ==
    IF m = 0 THEN F32Zero
    ELSE IF m < F32Two23 THEN F32Normalize(s, 2 * m, e - 1)
    ELSE [s |-> s, m |-> m, e |-> e]

\* round to nearest, ties to even: q is the kept part, twiceRem ? unit tells
\* on which side of the half the dropped part lies
F32Round(s, q, e, twiceRem, unit) ==
    LET up == twiceRem > unit \/ (twiceRem = unit /\ q % 2 = 1)
        r == IF up THEN q + 1 ELSE q
    IN  IF r = F32Two24
        THEN [s |-> s, m |-> F32Two23, e |-> e + 1]
        ELSE [s |-> s, m |-> r, e |-> e]

\* the number of bits by which n >= 2^24 exceeds 24 bits
RECURSIVE F32Excess(_)
F32Excess(n) == IF n < F32Two24 THEN 0 ELSE 1 + F32Excess(n \div 2)

\* static_cast<float>(n) of an integer
F32FromInt(n) ==
    LET s == IF n < 0 THEN -1 ELSE 1
        a == IF n < 0 THEN -n ELSE n
        k == F32Excess(a)
        unit == F32Pow2(k)
    IN  IF a < F32Two24
        THEN F32Normalize(s, a, 0)
        ELSE F32Round(s, a \div unit, k, 2 * (a % unit), unit)

\* floor(r * 2^bits / d) continued from the quotient q, with the remainder
RECURSIVE F32LongDivision(_, _, _, _)
F32LongDivision(q, r, d, bits) ==
    IF bits = 0
    THEN [q |-> q, r |-> r]
    ELSE IF 2 * r >= d
         THEN F32LongDivision(2 * q + 1, 2 * r - d, d, bits - 1)
         ELSE F32LongDivision(2 * q, 2 * r, d, bits - 1)

\* x / y of two floats, y not zero
F32Div(x, y) ==
    IF x.m = 0 THEN F32Zero
    ELSE LET bits == IF x.m >= y.m THEN 23 ELSE 24
             d == F32LongDivision(x.m \div y.m, x.m % y.m, y.m, bits)
         IN  F32Round(x.s * y.s, d.q, x.e - y.e - bits, 2 * d.r, y.m)

\* x * y of two floats: the 48-bit product of the mantissas in 12-bit limbs
F32Mul(x, y) ==
    IF x.m = 0 \/ y.m = 0 THEN F32Zero
    ELSE LET a1 == x.m \div F32Two12
             a0 == x.m % F32Two12
             b1 == y.m \div F32Two12
             b0 == y.m % F32Two12
             p1 == a1 * b0 + a0 * b1
             lo == a0 * b0 + (p1 % F32Two12) * F32Two12
             hi == a1 * b1 + (p1 \div F32Two12) + (lo \div F32Two24)
             lo24 == lo % F32Two24
         IN  IF hi >= F32Two23
             THEN F32Round(x.s * y.s, hi, x.e + y.e + 24, 2 * lo24, F32Two24)
             ELSE F32Round(x.s * y.s, 2 * hi + (lo24 \div F32Two23),
                           x.e + y.e + 23, 2 * (lo24 % F32Two23), F32Two23)

\* x <= y of two floats
F32LessEq(x, y) ==
    IF x.m = 0 THEN y.m = 0 \/ y.s = 1
    ELSE IF y.m = 0 THEN x.s = -1
    ELSE IF x.s # y.s THEN x.s = -1
    ELSE IF x.s = 1
         THEN x.e < y.e \/ (x.e = y.e /\ x.m <= y.m)
         ELSE x.e > y.e \/ (x.e = y.e /\ x.m >= y.m)

\* std::chrono::duration<float, std::milli>(d) / delta, d and delta in
\* nanoseconds: d is cast to float and divided by 1e6 (duration_cast to float
\* milliseconds), then both operands are brought to float nanoseconds (the
\* quotient's common type: times 1e6; delta cast to float) and divided
alphaFloat(d, delta) ==
    LET million == F32FromInt(1000000)
        millis == F32Div(F32FromInt(d), million)
    IN  F32Div(F32Mul(millis, million), F32FromInt(delta))

-----------------------------------------------------------------------------
(* Callers' inputs with event times that are no whole milliseconds *)

\* event times in ns, 4 to 25 ms apart
PredictionEventTimes ==
    {5000000, 9123457, 15936570, 21777777, 26400001, 30166667}

PredictionCoords ==
    { [eventTime |-> 0, x |-> 1, y |-> 2, touchMajor |-> 1, isResampled |-> FALSE],
      [eventTime |-> 0, x |-> 4, y |-> 1, touchMajor |-> 2, isResampled |-> FALSE] }

\* single-sample motion events of one finger
PredictionMotionEvents ==
    { [InputStream(<<c>>, 0, <<Finger(0)>>) EXCEPT !.mSampleEventTimes = <<t>>] :
        c \in PredictionCoords, t \in PredictionEventTimes }

PredictionFrameTimesNs == {22000000, 27000000, 45000000}

\* the same resampler, called with these inputs and no future sample
NextPrediction ==
    \/ \E ft \in PredictionFrameTimesNs, ev \in PredictionMotionEvents :
          resampleMotionEvent(ft, ev, NullPtr)
    \/ ReleaseMotionEvent

SpecPrediction == Init /\ [][NextPrediction]_vars

-----------------------------------------------------------------------------
(* Forward prediction *)

ExtrapolationDelta == PresentSample.eventTime - PastSample.eventTime

\* the float alpha of attemptExtrapolation for the sample the call appended
ExtrapolationAlphaFloat ==
    alphaFloat(AppendedEventTime - PastSample.eventTime, ExtrapolationDelta)

\* 1.5 and the next float above it
F32OneAndHalf == [s |-> 1, m |-> 12582912, e |-> -23]

F32AboveOneAndHalf == [s |-> 1, m |-> 12582913, e |-> -23]

\* the appended event time exceeds present's by at most min(delta/2, 8 ms)
PredictionWithinHorizon ==
    /\ AppendedEventTime - PresentSample.eventTime
           <= Min(ExtrapolationDelta \div 2, RESAMPLE_MAX_PREDICTION)
    /\ 2 * (AppendedEventTime - PresentSample.eventTime) <= ExtrapolationDelta
    /\ AppendedEventTime - PresentSample.eventTime <= RESAMPLE_MAX_PREDICTION

\* the quotient (appended time - past time) / delta itself is at most
\* 1 + min(1/2, 8 ms / delta), hence at most 1.5
ExactAlphaBounded ==
    LET num == AppendedEventTime - PastSample.eventTime
    IN  /\ 2 * num <= 3 * ExtrapolationDelta
        /\ num <= ExtrapolationDelta + RESAMPLE_MAX_PREDICTION

\* on an axis, the point on the line through past and present at the appended
\* time lies at most half of the displacement past -> present beyond present
WithinHalfDisplacement(past, present, at) ==
    LET ahead == IF FLess(past, present) THEN FSub(at, present)
                 ELSE FSub(present, at)
        displacement == IF FLess(past, present) THEN FSub(present, past)
                        ELSE FSub(past, present)
    IN  ~FLess(displacement, FMul(FloatOf(2), ahead))

ExactPositionBounded ==
    \A i \in 1..getPointerCount(originalMotionEvent) :
        LET past == PastSample.pointers[i].coords
            present == PresentSample.pointers[i].coords
            num == AppendedEventTime - PastSample.eventTime
            x == PointOnLine(past.x, present.x, num, ExtrapolationDelta)
            y == PointOnLine(past.y, present.y, num, ExtrapolationDelta)
        IN  /\ AppendedCoords(i).x = x
            /\ AppendedCoords(i).y = y
            /\ WithinHalfDisplacement(past.x, present.x, x)
            /\ WithinHalfDisplacement(past.y, present.y, y)

\* C35 as stated: whenever extrapolation appends a sample, its event time
\* exceeds present's by at most min(delta/2, 8 ms), alpha is at most
\* 1 + min(1/2, 8 ms/delta) <= 1.5, and on each axis the position lies at most
\* half of the displacement past -> present beyond present.
C35_BoundedPrediction ==
    Extrapolated =>
        /\ PredictionWithinHorizon
        /\ F32LessEq(ExtrapolationAlphaFloat, F32OneAndHalf)
        /\ ExactPositionBounded

\* C35, amended: the event time bound holds as stated; the quotient
\* (appended time - past time) / delta is at most 1.5 and the point that
\* alpha denotes lies within half of the displacement beyond present, while the
\* float alpha that the code computes from it may be the next float above
\* 1.5, not more.
C35_BoundedPredictionRounded ==
    Extrapolated =>
        /\ PredictionWithinHorizon
        /\ ExactAlphaBounded
        /\ F32LessEq(ExtrapolationAlphaFloat, F32AboveOneAndHalf)
        /\ ExactPositionBounded

\* an extrapolation cut at present + delta/2 whose float alpha is above 1.5
C35_Witness ==
    /\ Extrapolated
    /\ 2 * (AppendedEventTime - PresentSample.eventTime) = ExtrapolationDelta
    /\ ExtrapolationAlphaFloat = F32AboveOneAndHalf
    /\ PresentSample.pointers[1].coords.x # PastSample.pointers[1].coords.x

-----------------------------------------------------------------------------
(* FenceMonitor: trace numbers, counters and the queue *)

\* the monitor thread is inside fence->waitForever, or has returned from it
\* and not yet popped the fence
MonitorHoldsFence == monitor.pc \in {"waiting", "waited"}

\* the number queueFence traced for a fence (fences are numbered in call
\* order, and traced.queued holds one number per finished trace)
QueuedNumber(fence) == traced.queued[fence]

\* C36: the number under which the monitor thread waits for a fence
\* (mFencesSignaled, read when the fence is taken from the front of the queue)
\* is the number queueFence traced for that fence (mFencesQueued at the call),
\* in every interleaving, already-signaled fences included.
C36_TraceNumbersCorrect ==
    MonitorHoldsFence => monitor.fenceNum = QueuedNumber(monitor.fence)

\* the set of members of a sequence
Members(seq) == {seq[i] : i \in 1..Len(seq)}

\* the fences whose queueFence call has returned
QueueFenceReturned ==
    {fence \in 1..Len(fences) : fence # caller.fence}

\* C37: whenever mMutex is not held, mFencesQueued - mFencesSignaled is the
\* number of fences in mQueue; a fence that had signaled when it was passed
\* to queueFence is counted in both counters (mFencesQueued counts every
\* returned call, mFencesSignaled every fence popped and every fence not
\* queued) and is never in the queue.
C37_CountersMatchQueue ==
    /\ mMutex = "none" =>
        /\ mFencesQueued - mFencesSignaled = Len(mQueue)
        /\ mFencesQueued = Cardinality(QueueFenceReturned)
        /\ mFencesSignaled = Len(traced.removed)
                             + Cardinality(QueueFenceReturned \ Members(traced.enqueued))
    /\ traced.passedSignaled \cap Members(traced.enqueued) = {}
    /\ traced.passedSignaled \cap Members(mQueue) = {}

\* an already-signaled fence was passed while a pending fence was queued
\* behind a fence the monitor thread has popped, and all calls have returned
C37_Witness ==
    /\ mMutex = "none"
    /\ traced.passedSignaled \cap QueueFenceReturned # {}
    /\ mQueue # <<>>
    /\ traced.removed # <<>>

\* seq is the first Len(seq) members of other
IsPrefix(seq, other) ==
    /\ Len(seq) <= Len(other)
    /\ \A i \in 1..Len(seq) : seq[i] = other[i]

\* C38: the monitor thread waits on the pending fences one at a time in the
\* order queueFence enqueued them (the fences waited on are a prefix of the
\* fences enqueued, and at most one of them is not yet removed); a fence is
\* removed only after the wait on it has returned, with OK or with an error,
\* and it is the fence that was waited on (the fences removed are the fences
\* waited on, in order; while the thread holds a fence, that fence is still
\* the front of the queue; the queue is what was enqueued and not removed).
C38_WaitsInQueueOrder ==
    /\ IsPrefix(traced.waited, traced.enqueued)
    /\ IsPrefix(traced.removed, traced.waited)
    /\ Len(traced.waited) <= Len(traced.removed) + 1
    /\ MonitorHoldsFence =>
        /\ Len(traced.waited) = Len(traced.removed) + 1
        /\ mQueue # <<>>
        /\ mQueue[1] = monitor.fence
        /\ monitor.fence = traced.waited[Len(traced.waited)]
    /\ monitor.pc \in {"waited", "popped"} =>
        fences[traced.waited[Len(traced.waited)]] \in {"signaled", "error"}
    /\ ~MonitorHoldsFence => Len(traced.waited) = Len(traced.removed)
    /\ traced.enqueued = traced.removed \o mQueue

\* the thread has removed a fence whose wait returned an error, is waiting on
\* the next one, and a queueFence call has appended a fence behind it
C38_Witness ==
    /\ monitor.pc = "waiting"
    /\ Len(traced.removed) = 1
    /\ fences[traced.removed[1]] = "error"
    /\ Len(mQueue) = 2
    /\ mMutex = "none"

\* the destructor has set mStopped under the mutex, notified and released
\* the mutex
DestructorNotified == destructor \in {"joining", "done"}

\* once mStopped is set, the monitor thread takes no further fence from the
\* queue: the fences waited on are those waited on when mStopped was set
NoFurtherFenceWait ==
    mStopped => Len(traced.waited) = traced.waitedAtStop

\* once the destructor has notified, the thread is not blocked in
\* mCondition.wait
NotBlockedOnCondition ==
    DestructorNotified => monitor.pc # "cvWait"

\* the fences in the queue once mStopped is set are not waited on, except the
\* front one if the thread was already waiting on it
QueuedFencesNotWaitedOn ==
    mStopped =>
        \A i \in 1..Len(mQueue) :
            mQueue[i] \in Members(traced.waited)
                => i = 1 /\ mQueue[i] = monitor.fence

\* C39: once the destructor has set mStopped under the mutex and notified,
\* the monitor thread starts no further fence wait, is never left blocked on
\* the condition variable, never waits on the fences still in the queue, and
\* the destructor's join eventually returns, given that a fence wait in
\* progress returns.
C39_Shutdown ==
    /\ [](NoFurtherFenceWait /\ NotBlockedOnCondition /\ QueuedFencesNotWaitedOn)
    /\ (destructor = "joining") ~> (destructor = "done")

\* the destructor has returned; the thread was waiting on a fence when
\* mStopped was set, and a fence that was never waited on is still queued
C39_Witness ==
    /\ destructor = "done"
    /\ traced.waitedAtStop = Len(traced.removed)
    /\ traced.waitedAtStop >= 1
    /\ mQueue # <<>>

====
